---- MODULE Spec2Model ----
(***************************************************************************)
(* K6-framework: run_k6_tests.sh starts k6 and then the report processor   *)
(* utils/process-k6-results.js, which reads k6's JSON Lines output,        *)
(* aggregates the metric points and writes an HTML report built by the     *)
(* browser, protocol or API report generator.                              *)
(*                                                                         *)
(* Strings are TLA+ strings; TLC evaluates Len, \o and SubSeq on them.     *)
(* A tag or variable that is absent is the empty string: every use the     *)
(* code makes of one (x || default, parseInt(x), if (x)) treats undefined  *)
(* and "" alike.                                                           *)
(***************************************************************************)
EXTENDS Integers, Sequences, FiniteSets, TLC

VARIABLES
  pc,                  \* where the run is: start, k6, node, lines, exit1, done
  argv,                \* run_k6_tests.sh: the arguments not yet shifted away
  invocation,          \* how run_k6_tests.sh was started: its arguments and environment
  message,             \* run_k6_tests.sh: the error it printed ("" if none)
  SCRIPT_TO_RUN,       \* run_k6_tests.sh: --script
  ENVIRONMENT,         \* run_k6_tests.sh: --environment
  TEST_TYPE,           \* run_k6_tests.sh: --test-type
  AUT,                 \* run_k6_tests.sh: --aut
  SCENARIO_TYPE,       \* run_k6_tests.sh: --scenario
  BASE_URL,            \* run_k6_tests.sh: --base-url
  HEADLESS_BROWSER,    \* run_k6_tests.sh: --headless
  RAMPING_STAGES,      \* run_k6_tests.sh: --ramping-stages
  TIME_UNIT,           \* run_k6_tests.sh: --time-unit
  SELECTION_MODE,      \* run_k6_tests.sh: --selection-mode
  CAPTURE_MANTLE_METRICS_ENABLED, \* run_k6_tests.sh: --capture-mantle-metrics
  CAPTURE_MANTLE_METRICS, \* the environment variable k6 and node are given
  RESULTS_JSON,        \* run_k6_tests.sh: the k6 output path handed to k6 and node
  fileCreated,         \* whether k6 created its JSON output file
  lines,               \* the non-blank lines of the k6 output file
  idx,                 \* processK6Output: the line the first forEach is at
  testType,            \* processK6Output: the detected test type
  testMeta,            \* processK6Output: testType/aut/scenario of the run
  data,                \* processK6Output: the aggregates
  templateMetricCounts,\* processK6Output: metric points seen per transaction
  report,              \* the sections the generator built
  reportFilename,      \* the path the HTML report was written to ("" if none)
  stats,               \* the statistics harness: inputs and results
  scenarioConfig,      \* the test script: the scenario it built from __ENV
  csv,                 \* createCsvIterator: its options, vuPositions and calls
  browser              \* a browser test iteration: its position and samples

shellVars == <<argv, invocation, message, SCRIPT_TO_RUN, ENVIRONMENT, TEST_TYPE,
               AUT, SCENARIO_TYPE, BASE_URL, HEADLESS_BROWSER, RAMPING_STAGES,
               TIME_UNIT, SELECTION_MODE, CAPTURE_MANTLE_METRICS_ENABLED,
               CAPTURE_MANTLE_METRICS, RESULTS_JSON>>
nodeVars == <<idx, testType, testMeta, data, templateMetricCounts, report,
              reportFilename>>
scriptVars == <<scenarioConfig, csv, browser>>

vars == <<pc, shellVars, fileCreated, lines, nodeVars, stats, scriptVars>>

-----------------------------------------------------------------------------
(* JavaScript and shell string operations.                                 *)

Lower == "abcdefghijklmnopqrstuvwxyz"
Upper == "ABCDEFGHIJKLMNOPQRSTUVWXYZ"

CharAt(s, i) == SubSeq(s, i, i)

Drop(s, n) == SubSeq(s, n + 1, Len(s))

Take(s, n) == SubSeq(s, 1, n)

\* String.prototype.includes / grep of a literal pattern.
Includes(s, sub) ==
  \E i \in 1..(Len(s) + 1) :
    /\ i + Len(sub) - 1 <= Len(s)
    /\ SubSeq(s, i, i + Len(sub) - 1) = sub

StartsWith(s, pre) == Len(pre) <= Len(s) /\ Take(s, Len(pre)) = pre

EndsWith(s, suf) == Len(suf) <= Len(s) /\ Drop(s, Len(s) - Len(suf)) = suf

\* String.prototype.indexOf, 1-based; 0 when sub does not occur.
IndexOf(s, sub) ==
  LET hits == {i \in 1..(Len(s) + 1) :
                 /\ i + Len(sub) - 1 <= Len(s)
                 /\ SubSeq(s, i, i + Len(sub) - 1) = sub}
  IN IF hits = {} THEN 0 ELSE CHOOSE i \in hits : \A j \in hits : i <= j

LastIndexOf(s, sub) ==
  LET hits == {i \in 1..(Len(s) + 1) :
                 /\ i + Len(sub) - 1 <= Len(s)
                 /\ SubSeq(s, i, i + Len(sub) - 1) = sub}
  IN IF hits = {} THEN 0 ELSE CHOOSE i \in hits : \A j \in hits : i >= j

\* String.prototype.replace with a string pattern: the first occurrence only.
ReplaceFirst(s, pat, rep) ==
  LET i == IndexOf(s, pat)
  IN IF i = 0 THEN s
     ELSE Take(s, i - 1) \o rep \o Drop(s, i + Len(pat) - 1)

\* The letters and their other case.
UpperMap == [c \in {CharAt(Lower, i) : i \in 1..Len(Lower)} |-> CharAt(Upper, IndexOf(Lower, c))]
LowerMap == [c \in {CharAt(Upper, i) : i \in 1..Len(Upper)} |-> CharAt(Lower, IndexOf(Upper, c))]

UpperChar(c) == IF c \in DOMAIN UpperMap THEN UpperMap[c] ELSE c

LowerChar(c) == IF c \in DOMAIN LowerMap THEN LowerMap[c] ELSE c

RECURSIVE toUpperCase(_)
toUpperCase(s) ==
  IF Len(s) = 0 THEN "" ELSE UpperChar(CharAt(s, 1)) \o toUpperCase(Drop(s, 1))

RECURSIVE toLowerCase(_)
toLowerCase(s) ==
  IF Len(s) = 0 THEN "" ELSE LowerChar(CharAt(s, 1)) \o toLowerCase(Drop(s, 1))

\* path.basename: what follows the last "/".
basename(p) == Drop(p, LastIndexOf(p, "/"))

\* The length of the longest prefix of s made of characters outside `stop`.
RECURSIVE RunLen(_, _)
RunLen(s, stop) ==
  IF Len(s) = 0 \/ CharAt(s, 1) \in stop THEN 0 ELSE 1 + RunLen(Drop(s, 1), stop)

\* filename.match(/([^_]+)_([^_]+)_([^._]+)/) tried at position i: each [^_]+
\* must run up to an underscore, the last group takes the longest run without
\* "." and "_".
MatchAt(s, i) ==
  LET r1 == RunLen(Drop(s, i - 1), {"_"})
      j  == i + r1
      r2 == RunLen(Drop(s, j), {"_"})
      k  == j + 1 + r2
      r3 == RunLen(Drop(s, k), {".", "_"})
  IN IF /\ r1 > 0 /\ j <= Len(s)
        /\ r2 > 0 /\ k <= Len(s)
        /\ r3 > 0
     THEN [ok |-> TRUE, g1 |-> SubSeq(s, i, j - 1), g2 |-> SubSeq(s, j + 1, k - 1),
           g3 |-> SubSeq(s, k + 1, k + r3)]
     ELSE [ok |-> FALSE, g1 |-> "", g2 |-> "", g3 |-> ""]

\* The leftmost match of the file-name pattern, looked for from position i on.
RECURSIVE FirstMatch(_, _)
FirstMatch(s, i) ==
  IF i > Len(s) THEN [ok |-> FALSE, g1 |-> "", g2 |-> "", g3 |-> ""]
  ELSE IF MatchAt(s, i).ok THEN MatchAt(s, i)
  ELSE FirstMatch(s, i + 1)

FilenameMatch(s) == FirstMatch(s, 1)

-----------------------------------------------------------------------------
(* run_k6_tests.sh                                                         *)

valid_test_types == "BROWSER,API,PROTOCOL,MULTI"
valid_scenarios == "smoke,spiketest,loadtest,stresstest,endurancetest,custom-tps,custom-vus"

\* validate_test_type: grep -q "$1" on the list of valid types. The values
\* drawn here hold no regular-expression metacharacter, so grep looks for
\* the value as a substring.
validate_test_type(t) == Includes(valid_test_types, t)

\* validate_scenario_type: grep -q "$1" on the list of valid scenarios.
validate_scenario_type(s) == Includes(valid_scenarios, s)

\* validate_aut and the -z tests on the required parameters.
NonEmpty(s) == Len(s) > 0

\* RESULTS_PREFIX and RESULTS_JSON.
ResultsJson(t, a, s) == "results/" \o t \o "_" \o a \o "_" \o s \o ".json"

\* The values of --test-type, --aut and --scenario a caller passes.
TestTypeArgs == {"BROWSER", "API", "PROTOCOL", "MULTI", "WEB"}
AutArgs ==
  {"allrecipes", "shape", "shopapi", "protocols", "BROWSER", "my_site", "a.json"}
ScenarioArgs == {"smoke", "loadtest", "custom-tps", "soak"}

\* The variables the script reads without setting them first: they hold what
\* the caller's environment holds ("" when it holds nothing).
NoEnv ==
  [SCRIPT_TO_RUN |-> "", ENVIRONMENT |-> "", TEST_TYPE |-> "",
   RAMPING_STAGES |-> "", CAPTURE_MANTLE_METRICS |-> ""]

\* A command line with every required parameter.
RequiredArgs ==
  <<"--script=verticalBrowser.js", "--environment=qa",
    "--base-url=https://example.com">>

CommandLine(t, a, s) ==
  RequiredArgs \o <<"--test-type=" \o t, "--aut=" \o a, "--scenario=" \o s>>

\* Lines 3-25: the defaults, before the first argument is looked at.
ShellInit(args, env) ==
  /\ invocation = [args |-> args, env |-> env]
  /\ argv = args
  /\ message = ""
  /\ SCRIPT_TO_RUN = env.SCRIPT_TO_RUN
  /\ ENVIRONMENT = env.ENVIRONMENT
  /\ TEST_TYPE = env.TEST_TYPE
  /\ RAMPING_STAGES = env.RAMPING_STAGES
  /\ CAPTURE_MANTLE_METRICS = env.CAPTURE_MANTLE_METRICS
  /\ SCENARIO_TYPE = "smoke"
  /\ HEADLESS_BROWSER = "false"
  /\ BASE_URL = ""
  /\ AUT = "allrecipes"
  /\ TIME_UNIT = "1s"
  /\ SELECTION_MODE = "global_sequential"
  /\ CAPTURE_MANTLE_METRICS_ENABLED = "true"
  /\ RESULTS_JSON = ""

\* "${1#*=}": what follows the first "=".
ArgValue(arg) == Drop(arg, IndexOf(arg, "="))

\* The patterns of the case statement.
ArgPatterns ==
  {"--script=", "--environment=", "--scenario=", "--test-type=", "--headless=",
   "--ramping-stages=", "--base-url=", "--aut=", "--time-unit=",
   "--selection-mode=", "--capture-mantle-metrics="}

\* The error a branch of the case statement prints before exit 1 ("" when
\* it goes on to shift).
ArgError(arg) ==
  LET v == ArgValue(arg)
  IN IF StartsWith(arg, "--environment=") /\ ~NonEmpty(v)
     THEN "Invalid environment value: " \o v \o ". Expected a non-empty string."
     ELSE IF StartsWith(arg, "--test-type=") /\ ~validate_test_type(v)
     THEN "Invalid test type: " \o v \o ". Valid options are: " \o valid_test_types
     ELSE IF StartsWith(arg, "--aut=") /\ ~NonEmpty(v)
     THEN "Invalid AUT value: " \o v \o ". Expected a non-empty string."
     ELSE IF \A pat \in ArgPatterns : ~StartsWith(arg, pat)
     THEN "Unknown parameter: " \o arg
     ELSE ""

\* The assignment a branch of the case statement makes.
SetBy(arg, pat, old) == IF StartsWith(arg, pat) THEN ArgValue(arg) ELSE old

AssignArg(arg) ==
  /\ SCRIPT_TO_RUN' = SetBy(arg, "--script=", SCRIPT_TO_RUN)
  /\ ENVIRONMENT' = SetBy(arg, "--environment=", ENVIRONMENT)
  /\ SCENARIO_TYPE' = SetBy(arg, "--scenario=", SCENARIO_TYPE)
  /\ TEST_TYPE' = SetBy(arg, "--test-type=", TEST_TYPE)
  /\ HEADLESS_BROWSER' = SetBy(arg, "--headless=", HEADLESS_BROWSER)
  /\ RAMPING_STAGES' = SetBy(arg, "--ramping-stages=", RAMPING_STAGES)
  /\ BASE_URL' = SetBy(arg, "--base-url=", BASE_URL)
  /\ AUT' = SetBy(arg, "--aut=", AUT)
  /\ TIME_UNIT' = SetBy(arg, "--time-unit=", TIME_UNIT)
  /\ SELECTION_MODE' = SetBy(arg, "--selection-mode=", SELECTION_MODE)
  /\ CAPTURE_MANTLE_METRICS_ENABLED' =
       SetBy(arg, "--capture-mantle-metrics=", CAPTURE_MANTLE_METRICS_ENABLED)

\* One turn of the while loop that ends with shift.
ShellArg ==
  /\ pc = "start"
  /\ argv # <<>>
  /\ ArgError(Head(argv)) = ""
  /\ AssignArg(Head(argv))
  /\ argv' = Tail(argv)
  /\ UNCHANGED <<pc, invocation, message, CAPTURE_MANTLE_METRICS, RESULTS_JSON,
                 fileCreated, lines, stats>>
  /\ UNCHANGED nodeVars
  /\ UNCHANGED scriptVars

\* One turn of the while loop that ends with exit 1: a validation of the
\* value fails, or the parameter is unknown.
ShellArgExit1 ==
  /\ pc = "start"
  /\ argv # <<>>
  /\ ArgError(Head(argv)) # ""
  /\ AssignArg(Head(argv))
  /\ message' = ArgError(Head(argv))
  /\ pc' = "exit1"
  /\ UNCHANGED <<argv, invocation, CAPTURE_MANTLE_METRICS, RESULTS_JSON,
                 fileCreated, lines, stats>>
  /\ UNCHANGED nodeVars
  /\ UNCHANGED scriptVars

\* Lines 108-145: the error of the first check that fails after the loop
\* ("" when all pass).
RequiredError ==
  IF ~NonEmpty(SCRIPT_TO_RUN) THEN "Error: --script parameter is required"
  ELSE IF ~NonEmpty(ENVIRONMENT) THEN "Error: --environment parameter is required"
  ELSE IF ~NonEmpty(TEST_TYPE) THEN "Error: --test-type parameter is required"
  ELSE IF ~NonEmpty(BASE_URL) THEN "Error: --base-url parameter is required"
  ELSE IF ~validate_test_type(TEST_TYPE)
  THEN "Invalid test type: " \o TEST_TYPE \o ". Valid options are: "
         \o valid_test_types
  ELSE IF ~validate_scenario_type(SCENARIO_TYPE)
  THEN "Invalid scenario type: " \o SCENARIO_TYPE \o ". Valid options are: "
         \o valid_scenarios
  ELSE ""

\* The command line is accepted: the exports are made and k6 is started
\* with --out json=$RESULTS_JSON.
ShellStartK6 ==
  /\ pc = "start"
  /\ argv = <<>>
  /\ RequiredError = ""
  /\ CAPTURE_MANTLE_METRICS' = CAPTURE_MANTLE_METRICS_ENABLED
  /\ RESULTS_JSON' = ResultsJson(TEST_TYPE, AUT, SCENARIO_TYPE)
  /\ pc' = "k6"
  /\ UNCHANGED <<argv, invocation, message, SCRIPT_TO_RUN, ENVIRONMENT, TEST_TYPE,
                 AUT, SCENARIO_TYPE, BASE_URL, HEADLESS_BROWSER, RAMPING_STAGES,
                 TIME_UNIT, SELECTION_MODE, CAPTURE_MANTLE_METRICS_ENABLED,
                 fileCreated, lines, stats>>
  /\ UNCHANGED nodeVars
  /\ UNCHANGED scriptVars

\* Lines 109-126 pass: the script goes on to the exports of lines 129-141,
\* which come before the validations of lines 144-145.
ExportsMade ==
  /\ NonEmpty(SCRIPT_TO_RUN)
  /\ NonEmpty(ENVIRONMENT)
  /\ NonEmpty(TEST_TYPE)
  /\ NonEmpty(BASE_URL)

\* A check after the loop fails: the script prints the error and exits with
\* status 1. A failure of validate_test_type or validate_scenario_type
\* (lines 144-145) comes after export CAPTURE_MANTLE_METRICS (line 138).
ShellExit1 ==
  /\ pc = "start"
  /\ argv = <<>>
  /\ RequiredError # ""
  /\ message' = RequiredError
  /\ CAPTURE_MANTLE_METRICS' =
       IF ExportsMade THEN CAPTURE_MANTLE_METRICS_ENABLED
       ELSE CAPTURE_MANTLE_METRICS
  /\ pc' = "exit1"
  /\ UNCHANGED <<argv, invocation, SCRIPT_TO_RUN, ENVIRONMENT, TEST_TYPE,
                 AUT, SCENARIO_TYPE, BASE_URL, HEADLESS_BROWSER, RAMPING_STAGES,
                 TIME_UNIT, SELECTION_MODE, CAPTURE_MANTLE_METRICS_ENABLED,
                 RESULTS_JSON, fileCreated, lines, stats>>
  /\ UNCHANGED nodeVars
  /\ UNCHANGED scriptVars

-----------------------------------------------------------------------------
(* Numbers and JavaScript values.                                          *)
(*                                                                         *)
(* A metric value is a fixed-point number with four decimals: the integer  *)
(* n stands for n / 10000, which makes every product the fallback data     *)
(* uses (0.08 * 1.1, 1513.79 * 0.9 * 1.6, ...) an integer. An average or   *)
(* the mean of the two middle values is kept as a fraction.                *)

Scale == 100 * 100
One == Scale

Rat(n, d) == [num |-> n, den |-> d]

\* A JavaScript value handed to calculateStats: undefined, null, an array of
\* numbers, a number, a string (of which only the length matters) or a plain
\* object.
Undefined == [t |-> "undefined", v |-> <<>>]
Null == [t |-> "null", v |-> <<>>]
Arr(seq) == [t |-> "array", v |-> seq]
Num(n) == [t |-> "number", v |-> <<n>>]
Str(len) == [t |-> "string", v |-> <<len>>]
Obj == [t |-> "object", v |-> <<>>]

\* !x is false.
Truthy(x) ==
  CASE x.t \in {"undefined", "null"} -> FALSE
    [] x.t \in {"number", "string"} -> x.v[1] # 0
    [] OTHER -> TRUE

\* x.length === 0: only arrays and strings have a length.
LengthIsZero(x) ==
  CASE x.t = "array" -> Len(x.v) = 0
    [] x.t = "string" -> x.v[1] = 0
    [] OTHER -> FALSE

\* values.slice().sort((a, b) => a - b)
RECURSIVE Insert(_, _)
Insert(sorted, x) ==
  IF sorted = <<>> THEN <<x>>
  ELSE IF x < Head(sorted) THEN <<x>> \o sorted
  ELSE <<Head(sorted)>> \o Insert(Tail(sorted), x)

RECURSIVE SortNumbers(_)
SortNumbers(seq) ==
  IF seq = <<>> THEN <<>> ELSE Insert(SortNumbers(Tail(seq)), Head(seq))

RECURSIVE Sum(_)
Sum(seq) == IF seq = <<>> THEN 0 ELSE Head(seq) + Sum(Tail(seq))

\* report-helpers.js: the stats returned for no data, and the outcome of a
\* call that throws a TypeError (values.slice or sorted.sort is no function).
EmptyStats ==
  [threw |-> FALSE, min |-> 0, max |-> 0, avg |-> Rat(0, 1), median |-> Rat(0, 1),
   p90 |-> 0, p95 |-> 0, p99 |-> 0, count |-> 0]

ThrownStats == [EmptyStats EXCEPT !.threw = TRUE]

\* report-helpers.js calculateStats. sorted[Math.floor(0.9 * count)] is the
\* element at the 1-based place (9 * count) \div 10 + 1: the double nearest to
\* 0.9, 0.95 or 0.99 times an integer never rounds across an integer.
calculateStats(values) ==
  IF ~Truthy(values) \/ LengthIsZero(values) THEN EmptyStats
  ELSE IF values.t # "array" THEN ThrownStats
  ELSE
    LET sorted == SortNumbers(values.v)
        count == Len(sorted)
    IN [threw |-> FALSE,
        min |-> sorted[1],
        max |-> sorted[count],
        avg |-> Rat(Sum(sorted), count),
        median |-> IF count % 2 = 1 THEN Rat(sorted[count \div 2 + 1], 1)
                   ELSE Rat(sorted[count \div 2] + sorted[count \div 2 + 1], 2),
        p90 |-> sorted[(9 * count) \div 10 + 1],
        p95 |-> sorted[(95 * count) \div 100 + 1],
        p99 |-> sorted[(99 * count) \div 100 + 1],
        count |-> count]

\* generate-protocol-report.js: its own empty stats (med, not median).
EmptyStatsProtocol ==
  [threw |-> FALSE, min |-> 0, max |-> 0, avg |-> Rat(0, 1), med |-> 0,
   p90 |-> 0, p95 |-> 0, p99 |-> 0, count |-> 0]

\* generate-protocol-report.js calculateStats(values = []).
calculateStatsProtocol(values) ==
  IF values.t # "array" \/ Len(values.v) = 0 THEN EmptyStatsProtocol
  ELSE
    LET sorted == SortNumbers(values.v)
        count == Len(sorted)
    IN [threw |-> FALSE,
        min |-> sorted[1],
        max |-> sorted[count],
        avg |-> Rat(Sum(sorted), count),
        med |-> sorted[(count - 1) \div 2 + 1],
        p90 |-> sorted[(90 * (count - 1)) \div 100 + 1],
        p95 |-> sorted[(95 * (count - 1)) \div 100 + 1],
        p99 |-> sorted[(99 * (count - 1)) \div 100 + 1],
        count |-> count]

-----------------------------------------------------------------------------
(* The k6 JSON Lines output.                                               *)

\* data.tags of a Point. `nested` says the tags hold an object under the
\* key "tags", whose transaction is `inner`.
NoTags ==
  [present |-> FALSE, transaction |-> "", template |-> "", url |-> "",
   resource_url |-> "", status |-> "", content_type |-> "", size |-> "",
   initiatorType |-> "", nested |-> FALSE, inner |-> ""]

Tags(transaction, url, status) ==
  [NoTags EXCEPT !.present = TRUE, !.transaction = transaction, !.url = url,
                 !.status = status]

\* A line of the file: one that JSON.parse rejects, or a JSON object with its
\* type, metric, data.tags and data.value.
BadLine ==
  [parses |-> FALSE, type |-> "", metric |-> "", tags |-> NoTags, value |-> 0]

Point(metric, tags, value) ==
  [parses |-> TRUE, type |-> "Point", metric |-> metric, tags |-> tags,
   value |-> value]

MetricLine(metric) ==
  [parses |-> TRUE, type |-> "Metric", metric |-> metric, tags |-> NoTags,
   value |-> 0]

\* parseInt(s): the decimal digits s starts with; NaN when there is none.
Digits == "0123456789"

RECURSIVE DigitsValue(_, _)
DigitsValue(s, acc) ==
  IF Len(s) = 0 \/ IndexOf(Digits, CharAt(s, 1)) = 0 THEN acc
  ELSE DigitsValue(Drop(s, 1), 10 * acc + IndexOf(Digits, CharAt(s, 1)) - 1)

parseInt(s) ==
  IF Len(s) = 0 \/ IndexOf(Digits, CharAt(s, 1)) = 0
  THEN [nan |-> TRUE, n |-> 0]
  ELSE [nan |-> FALSE, n |-> DigitsValue(s, 0)]

\* parseInt(s) || dflt: NaN and 0 are falsy.
parseIntOr(s, dflt) ==
  LET r == parseInt(s) IN IF r.nan \/ r.n = 0 THEN dflt ELSE r.n

\* x || dflt on strings.
StrOr(x, dflt) == IF x = "" THEN dflt ELSE x

\* report-helpers.js getTransactionName
getTransactionName(tags) ==
  IF ~tags.present THEN "unknown"
  ELSE LET transaction == IF tags.nested THEN tags.inner ELSE tags.transaction
       IN IF transaction # "" THEN transaction ELSE "unknown"

-----------------------------------------------------------------------------
(* process-k6-results.js: the aggregates.                                  *)

mantleMetricKeys ==
  {"browser_mantle_first_ad_load", "browser_mantle_first_ad_render",
   "browser_mantle_first_ad_request", "browser_mantle_first_ad_response",
   "browser_mantle_gtm_loaded", "browser_mantle_gpt_loaded",
   "browser_mantle_scroll_depth", "browser_mantle_content_depth_px",
   "browser_mantle_third_party_fired", "browser_mantle_deferred_fired",
   "browser_mantle_video_player_loaded", "browser_mantle_ad_refresh_rate",
   "browser_mantle_ad_bidder_amount", "browser_mantle_first_scroll",
   "browser_mantle_adsrendered", "browser_mantle_adsviewable"}

\* (process.env.CAPTURE_MANTLE_METRICS || 'true').toLowerCase() === 'true'
captureMantleMetrics ==
  toLowerCase(StrOr(CAPTURE_MANTLE_METRICS, "true")) = "true"

\* An object with no key.
EmptyMap == [k \in {} |-> <<>>]

ResourceTypes == {"js", "css", "img", "font", "other", "html"}

\* Object.values(data.resource_details) goes through the types in this order.
ResourceTypeOrder == <<"js", "css", "img", "font", "other", "html">>

\* let data = {...}: the aggregates before the first line.
InitialData ==
  [lcp |-> EmptyMap, fcp |-> EmptyMap, cls |-> EmptyMap, ttfb |-> EmptyMap,
   pageLoadTime |-> EmptyMap, browser_page_load_success |-> EmptyMap,
   protocol_ttfb |-> EmptyMap, protocol_ttlb |-> EmptyMap,
   protocol_req_success_rate |-> EmptyMap,
   resource_details |-> [t \in ResourceTypes |-> <<>>]]
  @@ (IF captureMantleMetrics THEN [k \in mantleMetricKeys |-> EmptyMap]
      ELSE EmptyMap)

\* browserMetricsMap: the k6 metric name and the key of data it names. A key
\* data does not have yet (serverProcessingTime, ...) makes the entry undefined.
browserMetricsMap ==
  [browser_lcp |-> "lcp", browser_fcp |-> "fcp", browser_cls |-> "cls",
   browser_ttfb |-> "ttfb", browser_page_load_time |-> "pageLoadTime",
   browser_server_processing_time |-> "serverProcessingTime",
   browser_network_time |-> "networkTime",
   browser_dom_processing_time |-> "domProcessingTime",
   browser_resource_load_time |-> "resourceLoadTime",
   browser_script_execution_time |-> "scriptExecutionTime",
   browser_script_parsing_time |-> "scriptParsingTime",
   browser_critical_rendering_time |-> "criticalRenderingTime",
   browser_total_download_time |-> "totalDownloadTime",
   browser_critical_path_time |-> "criticalPathTime",
   browser_parallel_download_efficiency |-> "parallelDownloadEfficiency",
   browser_js_load_time |-> "jsLoadTime", browser_css_load_time |-> "cssLoadTime",
   browser_img_load_time |-> "imgLoadTime",
   browser_font_load_time |-> "fontLoadTime",
   browser_other_resource_load_time |-> "otherResourceLoadTime"]

resourceTrendMetrics ==
  [browser_resource_js |-> "js", browser_resource_css |-> "css",
   browser_resource_img |-> "img", browser_resource_font |-> "font",
   browser_resource_other |-> "other"]

\* A variant of Push that adds the value to every group of the map.
PushToAll(map, name, value) ==
  [n \in DOMAIN map \cup {name} |->
     IF n \in DOMAIN map THEN Append(map[n], value) ELSE <<value>>]

\* if (!map[name]) map[name] = []; map[name].push(value)
Push(map, name, value) ==
  IF name \in DOMAIN map THEN [map EXCEPT ![name] = Append(@, value)]
  ELSE map @@ (name :> <<value>>)

\* The requests/passes/fails counters of a transaction.
Tally(map, name, pass) ==
  LET old == IF name \in DOMAIN map THEN map[name]
             ELSE [requests |-> 0, passes |-> 0, fails |-> 0]
      new == [requests |-> old.requests + 1,
              passes |-> old.passes + (IF pass THEN 1 ELSE 0),
              fails |-> old.fails + (IF pass THEN 0 ELSE 1)]
  IN IF name \in DOMAIN map THEN [map EXCEPT ![name] = new]
     ELSE map @@ (name :> new)

\* An entry of data.resource_details. A field the code leaves out is "" or 0.
Resource(transaction, url, duration, ttfb, size, status, type, contentType) ==
  [transaction |-> transaction, url |-> url, duration |-> duration,
   ttfb |-> ttfb, size |-> size, status |-> status, type |-> type,
   contentType |-> contentType, random |-> FALSE]

\* metric.metric.match(/resource_([a-z]+)/): the lower-case letters that
\* follow the first "resource_".
ResourceTypeOfMetric(metric) ==
  LET i == IndexOf(metric, "resource_")
      rest == Drop(metric, i + Len("resource_") - 1)
      stop == {CharAt(rest, k) : k \in 1..Len(rest)}
                \ {CharAt(Lower, k) : k \in 1..Len(Lower)}
  IN IF i = 0 THEN "" ELSE Take(rest, RunLen(rest, stop))

\* The body of the first lines.forEach for one line: what it does to data. A
\* line that does not parse throws inside the try and changes nothing.
AggregateLine(d, line, tt) ==
  IF ~line.parses \/ line.type # "Point" \/ ~line.tags.present THEN d
  ELSE
    LET transactionName == getTransactionName(line.tags)
        m == line.metric
        protocol == tt \in {"PROTOCOL", "API"}
        resource(type) ==
          Resource(transactionName, StrOr(line.tags.url, "N/A"), line.value,
                   0, parseIntOr(line.tags.size, 0),
                   parseIntOr(line.tags.status, 200), "", "")
    IN
    IF m \in DOMAIN browserMetricsMap /\ browserMetricsMap[m] \in DOMAIN d
    THEN [d EXCEPT ![browserMetricsMap[m]] = Push(@, transactionName, line.value)]
    ELSE IF m = "browser_page_load_success"
    THEN [d EXCEPT !.browser_page_load_success =
                      Tally(@, transactionName, line.value = One)]
    ELSE IF captureMantleMetrics /\ m \in mantleMetricKeys
    THEN [d EXCEPT ![m] = Push(@, transactionName, line.value)]
    ELSE IF m = "http_req_waiting" /\ protocol
    THEN [d EXCEPT !.protocol_ttfb = Push(@, transactionName, line.value)]
    ELSE IF m = "http_req_duration" /\ protocol
    THEN [d EXCEPT !.protocol_ttlb = Push(@, transactionName, line.value)]
    ELSE IF m = "http_req_failed" /\ protocol
    THEN [d EXCEPT !.protocol_req_success_rate =
                      Tally(@, transactionName, line.value = 0)]
    ELSE IF tt = "BROWSER" /\ m \in DOMAIN resourceTrendMetrics
    THEN [d EXCEPT !.resource_details[resourceTrendMetrics[m]] =
                      Append(@, resource(resourceTrendMetrics[m]))]
    ELSE IF StartsWith(m, "protocol_resource_")
            /\ ResourceTypeOfMetric(m) \in DOMAIN d.resource_details
    THEN [d EXCEPT !.resource_details[ResourceTypeOfMetric(m)] =
                      Append(@, resource(ResourceTypeOfMetric(m)))]
    ELSE d

\* The body of the first lines.forEach for one line: templates and
\* templateMetricCounts (templates is the set of keys of the counts).
CountLine(tmc, line) ==
  IF ~line.parses \/ line.type # "Point" \/ ~line.tags.present THEN tmc
  ELSE
    LET transactionName == getTransactionName(line.tags)
    IN IF transactionName = "unknown" THEN tmc
       ELSE IF transactionName \in DOMAIN tmc
            THEN [tmc EXCEPT ![transactionName] = @ + 1]
            ELSE tmc @@ (transactionName :> 1)

-----------------------------------------------------------------------------
(* process-k6-results.js: the test type and the metadata of the run.       *)

\* process.argv of `node utils/process-k6-results.js $RESULTS_JSON $TEST_TYPE`
NodeArgv(resultsJson, t) == <<"node", "utils/process-k6-results.js", resultsJson, t>>

\* process.argv.find(pred): the place of the first argument that satisfies
\* pred, 0 when none does; `hits` are the places of those that satisfy it.
FindArg(hits) ==
  IF hits = {} THEN 0 ELSE CHOOSE i \in hits : \A j \in hits : i <= j

\* arg.split('=')[1]: what stands between the first "=" and the next one.
SplitEq1(arg) ==
  LET rest == Drop(arg, IndexOf(arg, "=")) IN Take(rest, RunLen(rest, {"="}))

\* testMeta, from the file name, then process.env.AUT, then --aut=.
ExtractMeta(inputFile, envAut, processArgv) ==
  LET match == FilenameMatch(basename(inputFile))
      autArg == FindArg({i \in 1..Len(processArgv) :
                           StartsWith(processArgv[i], "--aut=")})
      aut0 == IF match.ok THEN match.g2 ELSE ""
      aut1 == IF envAut # "" THEN envAut ELSE aut0
  IN [testType |-> IF match.ok THEN toUpperCase(match.g1) ELSE "",
      aut |-> IF autArg # 0 THEN SplitEq1(processArgv[autArg]) ELSE aut1,
      scenario |-> IF match.ok THEN match.g3 ELSE ""]

\* let testType = 'BROWSER'; ... : the file name decides first, then
\* K6_REPORT_TEST_TYPE, then the metadata; --test-type overrides them, and an
\* AUT named BROWSER overrides everything.
DetectTestType(inputFile, envTestType, meta, processArgv) ==
  LET byName ==
        IF Includes(toUpperCase(inputFile), "PROTOCOL") THEN "PROTOCOL"
        ELSE IF Includes(toUpperCase(inputFile), "API") THEN "API"
        ELSE IF envTestType # "" THEN toUpperCase(envTestType)
        ELSE IF meta.testType # "" THEN toUpperCase(meta.testType)
        ELSE "BROWSER"
      k == FindArg({i \in 1..Len(processArgv) :
                      \/ StartsWith(processArgv[i], "--test-type=")
                      \/ processArgv[i] = "--test-type"})
      byArg ==
        IF k = 0 THEN byName
        ELSE IF Includes(processArgv[k], "=") THEN toUpperCase(SplitEq1(processArgv[k]))
        ELSE IF k < Len(processArgv) THEN toUpperCase(processArgv[k + 1])
        ELSE byName
  IN IF meta.aut = "BROWSER" /\ byArg # "BROWSER" THEN "BROWSER" ELSE byArg

\* The metadata processK6Output ends with: the branches on the file name
\* also set testMeta.testType.
MetaAfterDetect(inputFile, meta) ==
  IF Includes(toUpperCase(inputFile), "PROTOCOL")
  THEN [meta EXCEPT !.testType = "PROTOCOL"]
  ELSE IF Includes(toUpperCase(inputFile), "API")
  THEN [meta EXCEPT !.testType = "API"]
  ELSE meta

\* The generator processK6Output calls for a test type ("" when it calls none).
GeneratorFor(tt) ==
  CASE tt = "BROWSER" -> "browser"
    [] tt = "PROTOCOL" -> "protocol"
    [] tt = "API" -> "api"
    [] OTHER -> ""

\* A variant of ReportFilename that only changes the extension.
ReportFilenameHtml(inputFile) == ReplaceFirst(inputFile, ".json", ".html")

\* config.inputFile.replace('.json', '_report.html')
ReportFilename(inputFile) == ReplaceFirst(inputFile, ".json", "_report.html")

-----------------------------------------------------------------------------
(* Sorting names as Array.prototype.sort does: by UTF-16 code unit.        *)

CodeOrder == "-./0123456789:ABCDEFGHIJKLMNOPQRSTUVWXYZ_abcdefghijklmnopqrstuvwxyz"

RECURSIVE StrLess(_, _)
StrLess(a, b) ==
  IF Len(b) = 0 THEN FALSE
  ELSE IF Len(a) = 0 THEN TRUE
  ELSE LET ca == IndexOf(CodeOrder, CharAt(a, 1))
           cb == IndexOf(CodeOrder, CharAt(b, 1))
       IN IF ca # cb THEN ca < cb ELSE StrLess(Drop(a, 1), Drop(b, 1))

RECURSIVE SortStrings(_)
SortStrings(names) ==
  IF names = {} THEN <<>>
  ELSE LET least == CHOOSE n \in names : \A o \in names \ {n} : StrLess(n, o)
       IN <<least>> \o SortStrings(names \ {least})

\* The names of a sequence, as a set.
Range(seq) == {seq[i] : i \in 1..Len(seq)}

\* Filter out templates with insufficient data (less than 5 metrics).
MinTemplateMetrics == 5

\* uniqueTemplates: Array.from(templates), filtered and sorted.
UniqueTemplates(tmc) ==
  SortStrings({t \in DOMAIN tmc : tmc[t] >= MinTemplateMetrics})

-----------------------------------------------------------------------------
(* process-k6-results.js addFallbackDataIfNeeded                           *)

correctTemplateNames ==
  <<"taxonomyScTemplate", "listScCommerceTemplate", "structuredContentTemplate",
    "listScTemplate", "exclusiveTemplate", "homeTemplate", "robotsTemplate">>

\* The three fallback values of a metric in thousandths, before the variation
\* factor: [a, b, c], and [real, real * 0.9, real * 1.1] for a value given in
\* hundredths.
Plain(a, b, c) == <<a * 1000, b * 1000, c * 1000>>
Real(hundredths) == <<hundredths * 10, hundredths * 9, hundredths * 11>>

FallbackBases ==
  [lcp |-> Plain(2500, 2300, 2700), fcp |-> Plain(1200, 1100, 1300),
   cls |-> <<100, 80, 120>>, ttfb |-> Plain(500, 450, 550),
   pageLoadTime |-> Real(151379), serverProcessingTime |-> Real(36579),
   networkTime |-> Real(100000), domProcessingTime |-> Real(22851),
   resourceLoadTime |-> Plain(800, 750, 850),
   scriptExecutionTime |-> Real(13858), scriptParsingTime |-> Real(0),
   jsLoadTime |-> Plain(600, 550, 650), cssLoadTime |-> Plain(450, 400, 500),
   imgLoadTime |-> Plain(700, 650, 750), fontLoadTime |-> Plain(200, 180, 220),
   otherResourceLoadTime |-> Plain(300, 270, 330)]

\* base * variationFactor with variationFactor = 1 + index * 0.1, for the
\* template at `index` (from 0): thousandths times tenths are the model's unit.
FallbackValues(key, index) ==
  [n \in 1..3 |-> FallbackBases[key][n] * (10 + index)]

\* templates after the check against correctTemplateNames.
FallbackTemplates(templates) ==
  IF \E i \in 1..Len(templates) : templates[i] \in Range(correctTemplateNames)
  THEN templates
  ELSE correctTemplateNames

\* The place of the last occurrence of a template in the list (forEach lets
\* the last one win), from 0.
LastIndex(templates, t) ==
  (CHOOSE i \in 1..Len(templates) :
     templates[i] = t /\ \A j \in (i + 1)..Len(templates) : templates[j] # t) - 1

\* data[key][template] = [...] for every template of the list.
FallbackGroup(old, key, templates) ==
  [t \in DOMAIN old \cup Range(templates) |->
     IF t \in Range(templates) THEN FallbackValues(key, LastIndex(templates, t))
     ELSE old[t]]

urlPrefixes ==
  [js |-> "https://example.com/static/js/main.",
   css |-> "https://example.com/static/css/styles.",
   img |-> "https://example.com/static/images/hero.",
   font |-> "https://example.com/static/fonts/opensans.",
   other |-> "https://example.com/static/misc/data."]

\* The 3 sample resources of a type for one template. Their duration and
\* size also hold a Math.random() part (below 100 ms, below 5000 bytes) that
\* is left open here: `random` marks the entry.
SampleResources(template, type) ==
  [i \in 1..3 |->
     [Resource(template, urlPrefixes[type] \o CharAt(Digits, i) \o "." \o type,
               (200 + (i - 1) * 50) * Scale, 0, 10000 + (i - 1) * 5000, 200,
               "", "")
      EXCEPT !.random = TRUE]]

RECURSIVE SamplesOfType(_, _)
SamplesOfType(templates, type) ==
  IF templates = <<>> THEN <<>>
  ELSE SampleResources(Head(templates), type) \o SamplesOfType(Tail(templates), type)

\* hasResourceData
hasResourceData(d) == \E t \in DOMAIN d.resource_details : Len(d.resource_details[t]) > 0

\* addFallbackDataIfNeeded(data, templates): the data and the templates it
\* leaves.
addFallbackDataIfNeeded(d, templates) ==
  LET ts == FallbackTemplates(templates)
      keys == DOMAIN FallbackBases
      groups == [k \in keys |->
                   FallbackGroup(IF k \in DOMAIN d THEN d[k] ELSE EmptyMap, k, ts)]
      d1 == IF ts = <<>> THEN d
            ELSE [k \in DOMAIN d \cup keys |-> IF k \in keys THEN groups[k] ELSE d[k]]
      details == [t \in DOMAIN d.resource_details |->
                    IF t \in DOMAIN urlPrefixes THEN SamplesOfType(ts, t)
                    ELSE d.resource_details[t]]
  IN [data |-> IF hasResourceData(d) THEN d1
               ELSE [k \in DOMAIN d1 |->
                       IF k = "resource_details" THEN details ELSE d1[k]],
      templates |-> ts]

-----------------------------------------------------------------------------
(* process-k6-results.js: the second pass of a PROTOCOL or API run.        *)

relevantMetrics ==
  {"http_req_duration", "http_req_waiting", "nonhtml_ttlb", "nonhtml_ttfb",
   "nonhtml_resource_stats"}

\* getResourceType(url, contentType)
getResourceType(url, contentType) ==
  LET ext == toLowerCase(Drop(url, LastIndexOf(url, ".")))
  IN IF ext \in {"jpg", "jpeg", "png", "gif", "svg", "webp", "ico"}
        \/ Includes(contentType, "image/") THEN "img"
     ELSE IF ext \in {"js", "jsx", "mjs"} \/ Includes(contentType, "javascript")
     THEN "js"
     ELSE IF ext = "css" \/ Includes(contentType, "css") THEN "css"
     ELSE IF ext \in {"woff", "woff2", "ttf", "otf", "eot"}
             \/ Includes(contentType, "font") THEN "font"
     ELSE "other"

\* protocolMetricsBuffer: the Points of the relevant metrics, in file order.
IsProtocolMetric(line) ==
  /\ line.parses /\ line.type = "Point" /\ line.tags.present
  /\ line.metric \in relevantMetrics

\* tags.url || tags.resource_url || 'N/A'
UrlOf(tags) == StrOr(tags.url, StrOr(tags.resource_url, "N/A"))

\* resourcesByUrl after the points of `buffer`: one entry per URL, in the
\* order the URLs are first seen, with the tags of the first point of the URL
\* and, per metric, the value of its last point.
RECURSIVE ResourcesByUrl(_, _)
ResourcesByUrl(buffer, acc) ==
  IF buffer = <<>> THEN acc
  ELSE
    LET metric == Head(buffer)
        url == UrlOf(metric.tags)
        at == {i \in 1..Len(acc) : acc[i].url = url}
        next ==
          IF url = "N/A" THEN acc
          ELSE IF at = {}
          THEN Append(acc, [url |-> url, tags |-> metric.tags,
                            values |-> (metric.metric :> metric.value)])
          ELSE LET i == CHOOSE i \in at : TRUE
               IN [acc EXCEPT ![i].values =
                     [m \in DOMAIN @ \cup {metric.metric} |->
                        IF m = metric.metric THEN metric.value ELSE @[m]]]
    IN ResourcesByUrl(Tail(buffer), next)

\* values.a || values.b || 0
ValueOr(values, a, b) ==
  IF a \in DOMAIN values /\ values[a] # 0 THEN values[a]
  ELSE IF b \in DOMAIN values /\ values[b] # 0 THEN values[b]
  ELSE 0

\* Object.values(resourcesByUrl).forEach(...): the resource objects pushed to
\* data.resource_details.
RECURSIVE PushResources(_, _)
PushResources(d, byUrl) ==
  IF byUrl = <<>> THEN d
  ELSE
    LET res == Head(byUrl)
        transactionName == getTransactionName(res.tags)
        contentType == res.tags.content_type
        resourceType == getResourceType(res.url, contentType)
        resourceObject ==
          Resource(transactionName, res.url,
                   ValueOr(res.values, "nonhtml_ttlb", "http_req_duration"),
                   ValueOr(res.values, "nonhtml_ttfb", "http_req_waiting"),
                   IF "nonhtml_resource_stats" \in DOMAIN res.values
                   THEN res.values["nonhtml_resource_stats"] ELSE 0,
                   parseIntOr(res.tags.status, 200), resourceType, contentType)
    IN PushResources(
         IF transactionName = "unknown" THEN d
         ELSE [d EXCEPT !.resource_details[resourceType] = Append(@, resourceObject)],
         Tail(byUrl))

SecondPass(d, fileLines) ==
  PushResources(d, ResourcesByUrl(SelectSeq(fileLines, IsProtocolMetric), <<>>))

-----------------------------------------------------------------------------
(* generate-protocol-report.js and generate-browser-report.js              *)

\* Object.values(data.resource_details).flat()
RECURSIVE Flatten(_, _)
Flatten(details, order) ==
  IF order = <<>> THEN <<>>
  ELSE details[Head(order)] \o Flatten(details, Tail(order))

AllResources(d) == Flatten(d.resource_details, ResourceTypeOrder)

\* r.status >= 200 && r.status < 400
Successful(r) == r.status >= 200 /\ r.status < 400

IsNonHtml(r) == r.transaction # "" /\ EndsWith(r.transaction, "_nonhtml")

Transactions(resources) ==
  SortStrings({resources[i].transaction : i \in 1..Len(resources)} \ {""})

TtfbValues(resources) == [i \in 1..Len(resources) |-> resources[i].ttfb]
TtlbValues(resources) == [i \in 1..Len(resources) |-> resources[i].duration]

\* One row of a performance-by-transaction table: `transaction` is the text
\* of the first cell, `source` the transaction whose resources the row counts.
TransactionRow(txn, resources) ==
  LET OfTxn(r) == r.transaction = txn
      txnResources == SelectSeq(resources, OfTxn)
  IN [transaction |-> txn,
      source |-> txn,
      requests |-> Len(txnResources),
      successCount |-> Len(SelectSeq(txnResources, Successful)),
      ttfb |-> calculateStatsProtocol(Arr(TtfbValues(txnResources))),
      ttlb |-> calculateStatsProtocol(Arr(TtlbValues(txnResources)))]

TransactionRows(transactions, resources) ==
  [i \in 1..Len(transactions) |-> TransactionRow(transactions[i], resources)]

\* The overall row of a summary table.
SummaryRow(resources) ==
  [totalTransactions |-> Len(Transactions(resources)),
   totalRequests |-> Len(resources),
   successCount |-> Len(SelectSeq(resources, Successful)),
   ttfb |-> calculateStatsProtocol(Arr(TtfbValues(resources))),
   ttlb |-> calculateStatsProtocol(Arr(TtlbValues(resources)))]

NoReport ==
  [generator |-> "", transactions |-> <<>>, summary |-> <<>>, rows |-> <<>>,
   nonHtmlRows |-> <<>>]

\* generateApiReport: the summary and the API Performance by Endpoint table.
generateApiReport(d) ==
  LET IsApi(r) == ~IsNonHtml(r)
      apiResources == SelectSeq(AllResources(d), IsApi)
      apiTransactions == Transactions(apiResources)
  IN [generator |-> "api", transactions |-> apiTransactions,
      summary |-> SummaryRow(apiResources),
      rows |-> TransactionRows(apiTransactions, apiResources),
      nonHtmlRows |-> <<>>]

\* buildPerformanceByTransactionTable of generate-protocol-report.js: the
\* first cell of a row is txn.replace('_nonhtml', '').
buildPerformanceByTransactionTable(transactions, resources) ==
  [i \in 1..Len(transactions) |->
     [TransactionRow(transactions[i], resources)
        EXCEPT !.transaction = ReplaceFirst(transactions[i], "_nonhtml", "")]]

\* The first cells of the rows of a table, in order.
RowLabels(tableRows) == [i \in 1..Len(tableRows) |-> tableRows[i].transaction]

\* generateProtocolReport: the overall summary and the HTML and non-HTML
\* performance tables. (The resource-type and network-analysis tables render
\* the same non-HTML resources with the same success test.)
generateProtocolReport(d) ==
  LET IsHtml(r) == ~IsNonHtml(r)
      htmlResources == SelectSeq(AllResources(d), IsHtml)
      nonHtmlResources == SelectSeq(AllResources(d), IsNonHtml)
      htmlRows ==
        buildPerformanceByTransactionTable(Transactions(htmlResources), htmlResources)
      nonHtmlRows ==
        buildPerformanceByTransactionTable(Transactions(nonHtmlResources),
                                           nonHtmlResources)
  IN [generator |-> "protocol",
      transactions |-> RowLabels(htmlRows) \o RowLabels(nonHtmlRows),
      summary |-> SummaryRow(htmlResources \o nonHtmlResources),
      rows |-> htmlRows,
      nonHtmlRows |-> nonHtmlRows]

\* The statistics of a metric for a transaction in the browser report.
BrowserStats(d, key, transaction) ==
  IF key \in DOMAIN d /\ transaction \in DOMAIN d[key] /\ Len(d[key][transaction]) > 0
  THEN calculateStats(Arr(d[key][transaction]))
  ELSE EmptyStats

\* generateBrowserReport: the request counts and the Core Web Vitals table.
generateBrowserReport(d, transactions) ==
  LET requestCount(t) ==
        IF t \in DOMAIN d.browser_page_load_success
        THEN d.browser_page_load_success[t].requests ELSE 0
  IN [generator |-> "browser", transactions |-> transactions,
      summary |-> [totalTransactions |->
                     Sum([i \in 1..Len(transactions) |-> requestCount(transactions[i])]),
                   totalResourceRequests |->
                     Sum([i \in 1..Len(ResourceTypeOrder) |->
                            IF ResourceTypeOrder[i] = "html" THEN 0
                            ELSE Len(d.resource_details[ResourceTypeOrder[i]])])],
      rows |-> [i \in 1..Len(transactions) |->
                  [transaction |-> transactions[i],
                   requests |-> requestCount(transactions[i]),
                   fcp |-> BrowserStats(d, "fcp", transactions[i]),
                   lcp |-> BrowserStats(d, "lcp", transactions[i]),
                   cls |-> BrowserStats(d, "cls", transactions[i]),
                   ttfb |-> BrowserStats(d, "ttfb", transactions[i])]],
      nonHtmlRows |-> <<>>]

-----------------------------------------------------------------------------
(* What k6 writes.                                                         *)

\* The longest output file of the aggregation runs, in lines.
MaxLines == 3

\* Points as the test scripts of the repository and k6's HTTP module emit
\* them, a Metric declaration and a line cut short.
LcpHome == Point("browser_lcp", Tags("home", "", ""), 3)
LcpListTemplate ==
  Point("browser_lcp", [NoTags EXCEPT !.present = TRUE, !.template = "list"], 5)
FcpNested ==
  Point("browser_fcp", [NoTags EXCEPT !.present = TRUE, !.nested = TRUE, !.inner = "home"], 6)
PageLoadHome == Point("browser_page_load_success", Tags("home", "", ""), One)
DurationHomeA == Point("http_req_duration", Tags("home", "/a", "200"), 7)
DurationListB == Point("http_req_duration", Tags("list", "/b.js", "0"), 4)
DurationListC == Point("http_req_duration", Tags("list_nonhtml", "/c.css", "404"), 8)
K6Lines ==
  {BadLine, MetricLine("browser_lcp"), LcpHome, LcpListTemplate, FcpNested,
   PageLoadHome, DurationHomeA, DurationListB, DurationListC}

\* Every file of at most MaxLines lines.
K6Outputs == UNION {[1..n -> K6Lines] : n \in 0..MaxLines}

\* The outputs of the runs that explore the command line.
SampleOutputs ==
  {<<LcpHome, BadLine, PageLoadHome>>, <<DurationHomeA, DurationListC, DurationListB>>}

\* The longest output file of the runs that reach the template filter.
MaxFallbackLines == 6

\* A point of a template that addFallbackDataIfNeeded knows by name.
LcpHomeTemplate == Point("browser_lcp", Tags("homeTemplate", "", ""), 3)

\* Every file of at most MaxFallbackLines Core Web Vitals points of two
\* templates.
FallbackOutputs ==
  UNION {[1..n -> {LcpHome, LcpHomeTemplate}] : n \in 0..MaxFallbackLines}

\* The longest output file of the runs that explore the grouping.
MaxGroupLines == 3

\* Points whose tags hold a transaction and an entry named "tags" as well:
\* an object with a transaction of its own, and one without.
DurationTagsList ==
  Point("http_req_duration",
        [Tags("home", "/a", "200") EXCEPT !.nested = TRUE, !.inner = "list"], 5)
LcpTagsEmpty ==
  Point("browser_lcp", [Tags("home", "", "") EXCEPT !.nested = TRUE], 6)

\* Points of the resource metrics of a browser test and of a protocol test.
ResourceJsHome == Point("browser_resource_js", Tags("home", "/a.js", "200"), 2)
ResourceCssList == Point("protocol_resource_css", Tags("list", "/c.css", "200"), 9)

GroupLines ==
  {LcpHome, DurationHomeA, DurationListB, DurationTagsList, LcpTagsEmpty,
   ResourceJsHome, ResourceCssList}

\* Every file of at most MaxGroupLines of these points.
GroupOutputs == UNION {[1..n -> GroupLines] : n \in 0..MaxGroupLines}

\* k6 runs the test and writes its points to RESULTS_JSON.
K6Run(outputs) ==
  /\ pc = "k6"
  /\ \E out \in outputs : lines' = out
  /\ fileCreated' = TRUE
  /\ pc' = "node"
  /\ UNCHANGED stats
  /\ UNCHANGED shellVars
  /\ UNCHANGED scriptVars
  /\ UNCHANGED nodeVars

\* k6 stops before it creates the file (no such script): the shell script has
\* no `set -e` and goes on to the report processor.
K6Fails ==
  /\ pc = "k6"
  /\ lines' = <<>>
  /\ fileCreated' = FALSE
  /\ pc' = "node"
  /\ UNCHANGED stats
  /\ UNCHANGED shellVars
  /\ UNCHANGED scriptVars
  /\ UNCHANGED nodeVars

-----------------------------------------------------------------------------
(* process-k6-results.js processK6Output                                   *)

NoMeta == [testType |-> "", aut |-> "", scenario |-> ""]

\* fs.readFileSync throws: the error is logged and nothing is written.
NodeReadFails ==
  /\ pc = "node"
  /\ ~fileCreated
  /\ pc' = "done"
  /\ UNCHANGED <<fileCreated, lines, stats>>
  /\ UNCHANGED shellVars
  /\ UNCHANGED scriptVars
  /\ UNCHANGED nodeVars

\* The file is read, the metadata and the test type are worked out (the shell
\* script exports AUT and K6_REPORT_TEST_TYPE) and data is set up.
NodeStart ==
  /\ pc = "node"
  /\ fileCreated
  /\ LET processArgv == NodeArgv(RESULTS_JSON, TEST_TYPE)
         meta == ExtractMeta(RESULTS_JSON, AUT, processArgv)
     IN /\ testType' = DetectTestType(RESULTS_JSON, TEST_TYPE, meta, processArgv)
        /\ testMeta' = MetaAfterDetect(RESULTS_JSON, meta)
  /\ data' = InitialData
  /\ templateMetricCounts' = EmptyMap
  /\ idx' = 1
  /\ pc' = "lines"
  /\ UNCHANGED <<fileCreated, lines, stats, report, reportFilename>>
  /\ UNCHANGED shellVars
  /\ UNCHANGED scriptVars

\* A variant of NodeLine with no try around JSON.parse: a line that does not
\* parse ends the processing before any report is written.
NodeLineNoCatch ==
  /\ pc = "lines"
  /\ idx <= Len(lines)
  /\ IF lines[idx].parses
     THEN /\ data' = AggregateLine(data, lines[idx], testType)
          /\ templateMetricCounts' = CountLine(templateMetricCounts, lines[idx])
          /\ idx' = idx + 1
          /\ pc' = pc
     ELSE /\ pc' = "done"
          /\ UNCHANGED <<data, templateMetricCounts, idx>>
  /\ UNCHANGED <<fileCreated, lines, stats, testType, testMeta, report,
                 reportFilename>>
  /\ UNCHANGED shellVars
  /\ UNCHANGED scriptVars

\* One turn of the first lines.forEach.
NodeLine ==
  /\ pc = "lines"
  /\ idx <= Len(lines)
  /\ data' = AggregateLine(data, lines[idx], testType)
  /\ templateMetricCounts' = CountLine(templateMetricCounts, lines[idx])
  /\ idx' = idx + 1
  /\ UNCHANGED <<pc, fileCreated, lines, stats, testType, testMeta, report,
                 reportFilename>>
  /\ UNCHANGED shellVars
  /\ UNCHANGED scriptVars

\* What follows the first pass: the templates, the fallback data or the
\* second pass, and the generator of the test type.
FinishReport(d, tmc, fileLines, tt) ==
  LET uniqueTemplates == UniqueTemplates(tmc)
  IN IF tt = "BROWSER"
     THEN LET fb == addFallbackDataIfNeeded(d, uniqueTemplates)
          IN [data |-> fb.data, report |-> generateBrowserReport(fb.data, fb.templates)]
     ELSE IF tt \in {"PROTOCOL", "API"}
     THEN LET d2 == SecondPass(d, fileLines)
          IN [data |-> d2,
              report |-> IF tt = "API" THEN generateApiReport(d2)
                         ELSE generateProtocolReport(d2)]
     ELSE [data |-> d, report |-> NoReport]

\* The report is generated and written next to the input file.
NodeReport ==
  /\ pc = "lines"
  /\ idx > Len(lines)
  /\ LET out == FinishReport(data, templateMetricCounts, lines, testType)
     IN data' = out.data /\ report' = out.report
  /\ reportFilename' = ReportFilename(RESULTS_JSON)
  /\ pc' = "done"
  /\ UNCHANGED <<fileCreated, lines, stats, idx, testType, testMeta,
                 templateMetricCounts>>
  /\ UNCHANGED shellVars
  /\ UNCHANGED scriptVars

-----------------------------------------------------------------------------
(* The statistics functions on their own.                                  *)

\* The longest array handed to the statistics functions.
MaxStatLen == 4

StatValues == {1, 2, 3}

StatArrays == UNION {[1..n -> StatValues] : n \in 0..MaxStatLen}

StatInputs ==
  {Arr(a) : a \in StatArrays}
    \cup {Undefined, Null, Num(0), Num(5), Str(0), Str(3), Obj}

NoStats ==
  [input |-> Undefined, helpersDone |-> FALSE, helpers |-> EmptyStats,
   protocolDone |-> FALSE, protocol |-> EmptyStatsProtocol]

\* report-helpers.js calculateStats is called on the input.
CallCalculateStats ==
  /\ pc = "stats"
  /\ ~stats.helpersDone
  /\ stats' = [stats EXCEPT !.helpersDone = TRUE, !.helpers = calculateStats(stats.input)]
  /\ UNCHANGED <<pc, fileCreated, lines>>
  /\ UNCHANGED shellVars
  /\ UNCHANGED scriptVars
  /\ UNCHANGED nodeVars

\* generate-protocol-report.js calculateStats is called on the input.
CallCalculateStatsProtocol ==
  /\ pc = "stats"
  /\ ~stats.protocolDone
  /\ stats' = [stats EXCEPT !.protocolDone = TRUE,
                            !.protocol = calculateStatsProtocol(stats.input)]
  /\ UNCHANGED <<pc, fileCreated, lines>>
  /\ UNCHANGED shellVars
  /\ UNCHANGED scriptVars
  /\ UNCHANGED nodeVars

-----------------------------------------------------------------------------------------------------------------------------------------------------
(* The test script k6 runs.                                                *)

NotLoaded == [loaded |-> FALSE]

\* String.prototype.split(sep)
RECURSIVE Split(_, _)
Split(s, sep) ==
  LET i == IndexOf(s, sep)
  IN IF i = 0 THEN <<s>>
     ELSE <<Take(s, i - 1)>> \o Split(Drop(s, i + Len(sep) - 1), sep)

\* const [duration, target] = stage.split(':');
\* return { duration, target: parseInt(target, 10) };
Stage(stage) ==
  LET parts == Split(stage, ":")
  IN [duration |-> parts[1],
      target |-> IF Len(parts) >= 2 THEN parseInt(parts[2]) ELSE parseInt("")]

\* config/scenario.js buildCustomScenario(type, rampingStages): the object it
\* returns, as a function of its keys.
buildCustomScenario(type, rampingStages) ==
  LET parts == Split(rampingStages, ",")
      stages == [i \in 1..Len(parts) |-> Stage(parts[i])]
  IN IF type = "custom-tps"
     THEN [executor |-> "ramping-arrival-rate", stages |-> stages,
           preAllocatedVUs |-> 1, maxVUs |-> 100]
     ELSE IF type = "custom-vus"
     THEN [executor |-> "ramping-vus", stages |-> stages]
     ELSE [null |-> TRUE]

\* A stage of a preset: { duration, target }.
PresetStage(duration, target) ==
  [duration |-> duration, target |-> [nan |-> FALSE, n |-> target]]

\* A preset of the API test type.
ArrivalRate(stages, maxVUs) ==
  [executor |-> "ramping-arrival-rate", stages |-> stages,
   preAllocatedVUs |-> 1, maxVUs |-> maxVUs]

\* options: { browser: { type: 'chromium' } }
ChromiumOptions == [browser |-> [type |-> "chromium"]]

\* A preset of the BROWSER test type.
ConstantVus(vus, duration) ==
  [executor |-> "constant-vus", vus |-> vus, duration |-> duration,
   options |-> ChromiumOptions]

\* config/scenario.js scenarios
scenarios ==
  [API |->
     [smoke |-> ArrivalRate(<<PresetStage("1m", 1), PresetStage("1m", 1),
                              PresetStage("30s", 0)>>, 10),
      spiketest |-> ArrivalRate(<<PresetStage("1m", 10), PresetStage("30s", 100),
                                  PresetStage("2m", 100), PresetStage("30s", 0)>>,
                                1000),
      loadtest |-> ArrivalRate(<<PresetStage("1m", 5), PresetStage("5m", 5),
                                 PresetStage("30s", 0)>>, 100),
      stresstest |-> ArrivalRate([i \in 1..10 |-> PresetStage("2m", 2)], 100),
      endurancetest |-> ArrivalRate(<<PresetStage("1m", 2), PresetStage("1h", 2),
                                      PresetStage("30s", 0)>>, 100)],
   BROWSER |->
     [smoke |-> ConstantVus(1, "1m"),
      loadtest |-> ConstantVus(5, "2m")]]

\* What evaluating an expression gave when it is not an object.
UndefinedValue == [undefined |-> TRUE]
TypeError(property) == [threw |-> "TypeError", reading |-> property]
NoScript == [threw |-> "no such file"]

\* scenarios[testType][scenarioType]
ScenarioPreset(tt, scenarioType) ==
  IF tt \notin DOMAIN scenarios THEN TypeError(scenarioType)
  ELSE IF scenarioType \notin DOMAIN scenarios[tt] THEN UndefinedValue
  ELSE scenarios[tt][scenarioType]

\* What k6 hands to the script as __ENV.TEST_TYPE: run_k6_tests.sh does not
\* export TEST_TYPE, so the variable is in k6's environment only if it was
\* in the caller's.
EnvTestType == IF NonEmpty(invocation.env.TEST_TYPE) THEN TEST_TYPE ELSE ""

\* TESTS_FOLDER="tests/$(echo $TEST_TYPE | tr '[:upper:]' '[:lower:]')"
TestsFolder == "tests/" \o toLowerCase(TEST_TYPE)

\* The options of the later part of tests/browser/k6Browsertest.js.
StableChromiumOptions ==
  [browser |->
     [type |-> "chromium",
      args |-> <<"--disable-dev-shm-usage", "--no-sandbox",
                 "--disable-setuid-sandbox", "--disable-gpu",
                 "--disable-web-security", "--allow-running-insecure-content">>]]

\* The code that builds scenarioConfig in a test script: the default of
\* testType, the default of the ramping stages ("" when __ENV.RAMPING_STAGES
\* is handed on as it is) and the options a browser script adds.
ScriptInit(defaultTestType, rampingStages, addsOptions, options) ==
  [testType |-> defaultTestType, rampingStages |-> rampingStages,
   addsOptions |-> addsOptions, options |-> options]

\* The test scripts of the repository, by the path k6 is given.
TestScripts ==
  ("tests/api/api.js" :> ScriptInit("API", "", FALSE, ChromiumOptions))
  @@ ("tests/api/d1test.js" :> ScriptInit("API", "", FALSE, ChromiumOptions))
  @@ ("tests/browser/verticalBrowser.js" :>
        ScriptInit("BROWSER", "", TRUE, ChromiumOptions))
  @@ ("tests/browser/k6Browsertest.js" :>
        ScriptInit("BROWSER", "", TRUE, StableChromiumOptions))
  @@ ("tests/multi/browserProtocolcombined.js" :>
        ScriptInit("BROWSER", "", TRUE, ChromiumOptions))
  @@ ("tests/protocol/vertical copy.js" :>
        ScriptInit("PROTOCOL", "10s:1,1m:5,10s:1", FALSE, ChromiumOptions))

\* $TESTS_FOLDER/$SCRIPT_TO_RUN, which the k6 command line holds without
\* quotes: the shell splits the path at its blanks, and k6 is handed what
\* comes before the first one as its script.
K6ScriptPath == Split(TestsFolder \o "/" \o SCRIPT_TO_RUN, " ")[1]

\* The top-level code of a test script up to options: scenarioConfig, or
\* the TypeError thrown on the way.
BuildScenarioConfig(script) ==
  LET scriptTestType == StrOr(EnvTestType, script.testType)
      scenarioType == StrOr(SCENARIO_TYPE, "smoke")
      rampingStages == StrOr(RAMPING_STAGES, script.rampingStages)
      built == IF scenarioType \in {"custom-tps", "custom-vus"}
               THEN buildCustomScenario(scenarioType, rampingStages)
               ELSE ScenarioPreset(scriptTestType, scenarioType)
  IN IF "threw" \in DOMAIN built \/ ~script.addsOptions \/ scriptTestType # "BROWSER"
     THEN built
     ELSE IF "undefined" \in DOMAIN built THEN TypeError("options")
     ELSE IF "options" \in DOMAIN built THEN built
     ELSE built @@ [options |-> script.options]

\* k6 loads the test script, which builds its scenario from __ENV; a third
\* argument, timeUnit, is handed to buildCustomScenario, which takes two.
\* There is no script to load at a path that names no file.
K6LoadScript ==
  /\ pc = "k6"
  /\ ~scenarioConfig.loaded
  /\ scenarioConfig' =
       [loaded |-> TRUE,
        value |-> IF K6ScriptPath \notin DOMAIN TestScripts THEN NoScript
                  ELSE BuildScenarioConfig(TestScripts[K6ScriptPath])]
  /\ UNCHANGED <<pc, fileCreated, lines, stats, csv, browser>>
  /\ UNCHANGED shellVars
  /\ UNCHANGED nodeVars

-----------------------------------------------------------------------------
(* utils/csvReader.js                                                      *)

\* The virtual users of a run, by execution.vu.idInTest.
VUs == {1, 2}
MaxRows == 2
MaxIterations == 4

\* What next() hands back: a row of the CSV data, null, or undefined.
RowItem(i) == [kind |-> "row", row |-> i]
NullItem == [kind |-> "null", row |-> 0]
UndefinedItem == [kind |-> "undefined", row |-> 0]

\* csvData with n rows; a row is known by its place in the file, from 0.
CsvData(n) == [i \in 1..n |-> RowItem(i - 1)]

\* csvData[index]
ItemAt(csvData, index) ==
  IF index + 1 \in DOMAIN csvData THEN csvData[index + 1] ELSE UndefinedItem

\* const { selectionMode = 'sequential', resetOnIterationEnd = true } = options
OptionOr(options, key, dflt) ==
  IF key \in DOMAIN options THEN options[key] ELSE dflt

\* createCsvIterator(csvData, options): the closure it returns. An iterator
\* over no data has the four functions that do nothing.
createCsvIterator(csvData, options) ==
  [created |-> TRUE,
   empty |-> Len(csvData) = 0,
   selectionMode |-> OptionOr(options, "selectionMode", "sequential"),
   resetOnIterationEnd |-> OptionOr(options, "resetOnIterationEnd", TRUE),
   csvData |-> csvData,
   vuPositions |-> EmptyMap]

\* A variant of GlobalIndex that counts iterations from one.
GlobalIndexFromOne(globalIteration, length) == (globalIteration + 1) % length

\* const index = globalIteration % csvData.length
GlobalIndex(globalIteration, length) == globalIteration % length

\* A variant of WrapPosition that wraps one call late.
WrapPositionLate(position, length, resetOnIterationEnd) ==
  IF position > length
  THEN (IF resetOnIterationEnd THEN 0 ELSE length - 1)
  ELSE position

\* if (position >= csvData.length)
\*   position = resetOnIterationEnd ? 0 : csvData.length - 1
WrapPosition(position, length, resetOnIterationEnd) ==
  IF position >= length
  THEN (IF resetOnIterationEnd THEN 0 ELSE length - 1)
  ELSE position

\* The per-VU branch of next(): the place the row is read from.
PerVuPosition(it, vuId) ==
  WrapPosition(IF vuId \in DOMAIN it.vuPositions THEN it.vuPositions[vuId] ELSE 0,
               Len(it.csvData), it.resetOnIterationEnd)

\* next(): the items it can return (random mode can return any row).
IteratorNextItems(it, vuId, globalIteration) ==
  IF it.empty THEN {NullItem}
  ELSE IF it.selectionMode = "random"
  THEN {it.csvData[i] : i \in DOMAIN it.csvData}
  ELSE IF it.selectionMode = "global_sequential"
  THEN {ItemAt(it.csvData, GlobalIndex(globalIteration, Len(it.csvData)))}
  ELSE {ItemAt(it.csvData, PerVuPosition(it, vuId))}

\* next(): vuPositions after the call.
IteratorNextPositions(it, vuId) ==
  IF it.empty \/ it.selectionMode \in {"random", "global_sequential"}
  THEN it.vuPositions
  ELSE [v \in DOMAIN it.vuPositions \cup {vuId} |->
          IF v = vuId THEN PerVuPosition(it, vuId) + 1 ELSE it.vuPositions[v]]

\* A variant of IteratorResetPositions that sets every VU back.
IteratorResetAllPositions(it, vuId) ==
  IF it.empty \/ it.selectionMode = "global_sequential" THEN it.vuPositions
  ELSE [v \in DOMAIN it.vuPositions \cup {vuId} |-> 0]

\* reset(): vuPositions after the call.
IteratorResetPositions(it, vuId) ==
  IF it.empty \/ it.selectionMode = "global_sequential" THEN it.vuPositions
  ELSE [v \in DOMAIN it.vuPositions \cup {vuId} |->
          IF v = vuId THEN 0 ELSE it.vuPositions[v]]

\* A VU that runs no iteration and has called nothing: its calls of
\* next(), those since its last call of reset(), and what the last one
\* handed it.
IdleVu ==
  [iteration |-> -1, called |-> FALSE, calls |-> 0, sinceReset |-> 0,
   hasReset |-> FALSE, last |-> NullItem]

NoIterator == [created |-> FALSE]

\* The iterator of a test script, with k6's count of the iterations begun
\* (execution.scenario.iterationInTest of the next one), what each VU does
\* and what each iteration was handed.
NewIterator(n, options) ==
  [it |-> createCsvIterator(CsvData(n), options),
   created |-> TRUE,
   iterationInTest |-> 0,
   vu |-> [v \in VUs |-> IdleVu],
   received |-> EmptyMap,
   caller |-> 0]

\* The iterator once k6 has started an iteration on VU v.
IterationStarted(c, v) ==
  [c EXCEPT !.iterationInTest = @ + 1,
            !.vu[v].iteration = c.iterationInTest,
            !.vu[v].called = FALSE]

\* The iterator once next() has handed item to VU v.
NextReturned(c, v, item) ==
  [c EXCEPT !.it.vuPositions = IteratorNextPositions(c.it, v),
            !.vu[v].called = TRUE,
            !.vu[v].calls = @ + 1,
            !.vu[v].sinceReset = @ + 1,
            !.vu[v].last = item,
            !.received = (c.vu[v].iteration :> item) @@ @,
            !.caller = v]

\* The iterator once the default function has returned on VU v.
IterationEnded(c, v) == [c EXCEPT !.vu[v].iteration = -1]

\* k6 starts an iteration of the default function on a VU: the iterations of
\* a test are numbered from 0 in the order they begin.
VuStartIteration(v) ==
  /\ pc = "iterating"
  /\ csv.vu[v].iteration = -1
  /\ csv.iterationInTest < MaxIterations
  /\ csv' = IterationStarted(csv, v)
  /\ UNCHANGED <<pc, fileCreated, lines, stats, scenarioConfig, browser>>
  /\ UNCHANGED shellVars
  /\ UNCHANGED nodeVars

\* const urlData = urlIterator.next(), once in an iteration.
IterNext(v) ==
  /\ pc = "iterating"
  /\ csv.vu[v].iteration >= 0
  /\ ~csv.vu[v].called
  /\ \E item \in IteratorNextItems(csv.it, v, csv.vu[v].iteration) :
       csv' = NextReturned(csv, v, item)
  /\ UNCHANGED <<pc, fileCreated, lines, stats, scenarioConfig, browser>>
  /\ UNCHANGED shellVars
  /\ UNCHANGED nodeVars

\* urlIterator.reset()
IterReset(v) ==
  /\ pc = "iterating"
  /\ csv.vu[v].iteration >= 0
  /\ csv' = [csv EXCEPT !.it.vuPositions = IteratorResetPositions(csv.it, v),
                        !.vu[v].hasReset = TRUE,
                        !.vu[v].sinceReset = 0,
                        !.caller = v]
  /\ UNCHANGED <<pc, fileCreated, lines, stats, scenarioConfig, browser>>
  /\ UNCHANGED shellVars
  /\ UNCHANGED nodeVars

\* The default function returns.
VuEndIteration(v) ==
  /\ pc = "iterating"
  /\ csv.vu[v].iteration >= 0
  /\ csv.vu[v].called
  /\ csv' = IterationEnded(csv, v)
  /\ UNCHANGED <<pc, fileCreated, lines, stats, scenarioConfig, browser>>
  /\ UNCHANGED shellVars
  /\ UNCHANGED nodeVars

-----------------------------------------------------------------------------
(* The browser tests: tests/browser/verticalBrowser.js,                    *)
(* tests/browser/k6Browsertest.js, utils/browserUtils.js and helpers.js.   *)
(*                                                                         *)
(* A function of a browser test is async: it runs up to an await, and goes *)
(* on when the awaited promise settles. A step of the model is one such    *)
(* run, from the await named by `at` to the next await or to the end.      *)

NoBrowser == [running |-> FALSE]

\* A sample a metric is given with add(); the value a Trend is given is
\* left out, a Rate is given 1 for true and 0 for false.
Sample(metric, value) == [metric |-> metric, value |-> value]
RateSample(metric, b) == Sample(metric, IF b THEN 1 ELSE 0)

\* The Core Web Vitals, in the order verticalBrowser.js and k6Browsertest.js
\* add them.
CoreWebVitals == <<"lcp", "fcp", "cls", "ttfb">>

\* lcpByTemplate.add(lcp, tags) ... ttfbByTemplate.add(ttfb, tags)
CoreWebVitalsSamples ==
  [i \in 1..Len(CoreWebVitals) |-> Sample("browser_" \o CoreWebVitals[i], 0)]

\* How page.goto ends: it throws, resolves to null, or to a response with a
\* status.
GotoOutcomes ==
  {[kind |-> "throws", status |-> 0], [kind |-> "null", status |-> 0]}
    \cup {[kind |-> "response", status |-> st] : st \in {0, 200, 301, 404}}

\* What the page.evaluate of a Core Web Vitals collector gives: it rejects,
\* or resolves with null, or with an object that holds a number for every
\* metric, for every metric but LCP, or for cls alone (which starts at 0).
EvaluateOutcomes == {"rejects", "null", "values", "noLcp", "onlyCls"}

\* The totals of the statistics of collectResourceTiming.
ResourceTotals ==
  {"totalDownloadTime", "criticalPathTime", "parallelDownloadEfficiency",
   "scriptParsingTime", "scriptExecutionTime"}

\* What the page.evaluate of collectResourceTiming gives: it rejects, or
\* resolves with statistics, some of whose totals are above 0.
ResourceStats(rejects, positive) == [rejects |-> rejects, positive |-> positive]
ResourceOutcomes ==
  {ResourceStats(TRUE, {}), ResourceStats(FALSE, {}),
   ResourceStats(FALSE, ResourceTotals),
   ResourceStats(FALSE, {"totalDownloadTime", "criticalPathTime"}),
   ResourceStats(FALSE, {"scriptParsingTime"})}

\* buildMetricDefinitions(metrics, options): the options it stores as
\* _options, which are the groups of metrics the definitions hold next to
\* pageLoadTime and pageLoadSuccess. captureMantleMetrics is false when the
\* options leave it out.
MetricDefinitions(coreWebVitals, detailedTiming, resources, mantle) ==
  [includeCoreWebVitals |-> coreWebVitals,
   includeDetailedTimingMetrics |-> detailedTiming,
   includeResourceMetrics |-> resources,
   captureMantleMetrics |-> mantle]

\* The definitions helpers.js builds, those of the Core Web Vitals alone,
\* those of the page load alone, and the two that hold the Mantle metrics.
AllMetricDefinitions == MetricDefinitions(TRUE, TRUE, TRUE, FALSE)
MetricDefinitionChoices ==
  {AllMetricDefinitions, MetricDefinitions(TRUE, FALSE, FALSE, FALSE),
   MetricDefinitions(FALSE, FALSE, FALSE, FALSE),
   MetricDefinitions(TRUE, TRUE, TRUE, TRUE),
   MetricDefinitions(FALSE, FALSE, FALSE, TRUE)}

\* The Mantle metrics, in the order buildMetricDefinitions defines them;
\* the Trend of mantle_<key> is named browser_mantle_<key>.
MantleKeys ==
  <<"first_ad_load", "first_ad_render", "first_ad_request", "first_ad_response",
    "gtm_loaded", "gpt_loaded", "scroll_depth", "content_depth_px",
    "third_party_fired", "deferred_fired", "video_player_loaded",
    "ad_refresh_rate", "ad_bidder_amount", "first_scroll", "adsrendered",
    "adsviewable">>

\* What the page.evaluate of collectMantleMetrics gives: it rejects, or
\* resolves with null (the page has no Mntl.trace), or with the object
\* Mntl.trace() returned, some of whose properties are numbers.
MantleTrace(kind, numbers) == [kind |-> kind, numbers |-> numbers]
MantleOutcomes ==
  {MantleTrace("rejects", {}), MantleTrace("null", {}), MantleTrace("object", {}),
   MantleTrace("object", {"first_ad_load", "adsviewable"}),
   MantleTrace("object", {MantleKeys[i] : i \in 1..Len(MantleKeys)})}

\* The url a caller hands to loadPageAndCollectMetrics: a string that is
\* not empty, the empty string, or no string at all.
UrlArguments == {"string", "empty", "undefined"}

\* The transaction of the tags a caller hands to loadPageAndCollectMetrics;
\* "" when the tags have none.
TransactionTags == {"home", "serverStatus", ""}

\* The awaits of the default function of helpers.js after the home page,
\* up to the call of performNavigationAndCollectMetrics.
HelpersAwaits ==
  <<"page.waitForTimeout:73", "page.waitForSelector:81", "page.evaluate:82",
    "page.waitForTimeout:92", "page.waitForSelector:96", "page.type:97",
    "page.waitForTimeout:98">>

\* The awaits of performNavigationAndCollectMetrics inside its inner try:
\* the reset of the timings, the navigation action (which awaits the
\* page.evaluate of helpers.js line 106) and the wait for the navigation.
NavigationAwaits ==
  <<"page.evaluate:348", "page.evaluate:106", "page.waitForNavigation:387">>

LastHelpersAwait == "page.waitForTimeout:119"

\* What the browser does in an iteration: what urlIterator.next() gives,
\* the url handed to loadPageAndCollectMetrics, whether newContext, newPage,
\* the waits and close throw, what newContext and newPage resolve with when
\* they do not throw, how page.goto ends, what the page.evaluate calls
\* give, which metrics are defined, and which await of helpers.js or of the
\* navigation rejects ("" for none).
Outcome(urlData, template, goto) ==
  [urlData |-> urlData, url |-> "string", template |-> template,
   newContextThrows |-> FALSE, newContextGives |-> "context",
   newPageThrows |-> FALSE, newPageGives |-> "page",
   goto |-> goto, domContentLoadedThrows |-> FALSE,
   networkIdleThrows |-> FALSE, evaluate |-> "values",
   resources |-> ResourceStats(FALSE, {}),
   scrollThrows |-> FALSE, mantle |-> MantleTrace("null", {}),
   closeThrows |-> FALSE,
   metricDefinitions |-> AllMetricDefinitions, rejectsAt |-> ""]

\* The outcomes next to o in which the context or the page is not had:
\* newContext or newPage throws, or resolves with null.
OpenFailures(o) ==
  {[o EXCEPT !.newContextThrows = TRUE], [o EXCEPT !.newContextGives = "null"],
   [o EXCEPT !.newPageThrows = TRUE], [o EXCEPT !.newPageGives = "null"]}

\* A page.goto that resolves with a response of status 200.
Loaded == [kind |-> "response", status |-> 200]

\* The outcomes of an iteration of verticalBrowser.js.
VerticalBrowserOutcomes ==
  {[Outcome(u, t, g) EXCEPT !.newPageThrows = n, !.domContentLoadedThrows = d,
                            !.networkIdleThrows = i, !.evaluate = e,
                            !.closeThrows = c] :
     u \in {"null", "row"}, t \in {"home", "serverStatus"}, g \in GotoOutcomes,
     n \in BOOLEAN, d \in BOOLEAN, i \in BOOLEAN, e \in {"rejects", "values"},
     c \in BOOLEAN}

\* The outcomes of an iteration of k6Browsertest.js.
K6BrowsertestOutcomes ==
  {[Outcome(u, t, g) EXCEPT !.newPageThrows = n, !.evaluate = e, !.closeThrows = c] :
     u \in {"null", "row"}, t \in {"home", "serverStatus"}, g \in GotoOutcomes,
     n \in BOOLEAN, e \in EvaluateOutcomes, c \in BOOLEAN}

\* The two versions of utils/browserUtils.js: the one of src/utils, and the
\* later one, which has performNavigationAndCollectMetrics.
BrowserUtilsVersions == {"utils/browserUtils.js", "tests/fistest.js"}

\* The awaits the later version adds to loadPageAndCollectMetrics: before
\* page.goto, and before collectAllMetrics.
BeforeGoto == "page.evaluate:133"
BeforeCollect == "page.evaluate:206"

\* The outcomes of a call of loadPageAndCollectMetrics: those in which the
\* context or the page is not had, those of every url, transaction tag, end
\* of page.goto and metric definitions, and those of what the page gives
\* once it has loaded.
LoadPageOutcomes ==
  OpenFailures(Outcome("row", "home", Loaded))
    \cup {[Outcome("row", t, g) EXCEPT !.url = u, !.metricDefinitions = m] :
            u \in UrlArguments, t \in TransactionTags, g \in GotoOutcomes,
            m \in MetricDefinitionChoices}
    \cup {[Outcome("row", "home", Loaded)
              EXCEPT !.evaluate = e, !.resources = r, !.scrollThrows = s,
                     !.metricDefinitions = m, !.mantle = k] :
            e \in EvaluateOutcomes, r \in ResourceOutcomes, s \in BOOLEAN,
            m \in MetricDefinitionChoices, k \in MantleOutcomes}

\* The outcomes of a call of the later loadPageAndCollectMetrics.
LaterLoadPageOutcomes ==
  {[o EXCEPT !.closeThrows = c] :
     o \in OpenFailures(Outcome("row", "home", Loaded)), c \in BOOLEAN}
    \cup {[Outcome("row", t, g) EXCEPT !.url = u, !.metricDefinitions = m,
                                       !.rejectsAt = a] :
            u \in UrlArguments, t \in TransactionTags, g \in GotoOutcomes,
            m \in MetricDefinitionChoices, a \in {"", BeforeGoto, BeforeCollect}}
    \cup {[Outcome("row", "home", Loaded)
              EXCEPT !.evaluate = e, !.resources = r, !.metricDefinitions = m] :
            e \in EvaluateOutcomes, r \in ResourceOutcomes,
            m \in MetricDefinitionChoices}

\* The outcomes of an iteration of helpers.js, whose first transaction is
\* GrafanaHome and whose url is a string.
HelpersOutcomes ==
  {[o EXCEPT !.closeThrows = c] :
     o \in OpenFailures(Outcome("row", "GrafanaHome", Loaded)), c \in BOOLEAN}
    \cup {[Outcome("row", "GrafanaHome", g) EXCEPT !.resources = r,
                                                   !.closeThrows = c,
                                                   !.rejectsAt = a] :
            g \in GotoOutcomes,
            r \in {ResourceStats(FALSE, {}), ResourceStats(FALSE, ResourceTotals)},
            c \in BOOLEAN,
            a \in {"", BeforeGoto, BeforeCollect, LastHelpersAwait}
                   \cup Range(HelpersAwaits) \cup Range(NavigationAwaits)}

BrowserFunctions ==
  {"verticalBrowser", "k6Browsertest", "loadPageAndCollectMetrics", "helpers"}

BrowserOutcomes ==
  [verticalBrowser |-> VerticalBrowserOutcomes,
   k6Browsertest |-> K6BrowsertestOutcomes,
   loadPageAndCollectMetrics |-> LoadPageOutcomes,
   helpers |-> HelpersOutcomes]

\* What a run of a function has left so far: the samples it added, the
\* value of pageLoadSuccessful, whether it ended in an exception, the
\* contexts and pages it opened, those close() was called on, and the
\* success of the object loadPageAndCollectMetrics returned.
Ran(samples, pageLoadSuccessful, threw) ==
  [samples |-> samples, pageLoadSuccessful |-> pageLoadSuccessful, threw |-> threw,
   opened |-> {}, closeCalled |-> {}, success |-> FALSE]

\* An iteration that is about to run function f with the browser doing o:
\* the first of the test, on VU 1, with the browserUtils.js of src/utils.
BrowserIteration(f, o) ==
  [running |-> TRUE, function |-> f, outcome |-> o, at |-> "start",
   transaction |-> o.template, done |-> FALSE, result |-> Ran(<<>>, FALSE, FALSE),
   vu |-> 1, iteration |-> 0, browserUtils |-> "utils/browserUtils.js"]

\* The function goes on to its next await.
Await(b, label) == [b EXCEPT !.at = label]

\* The function adds samples.
Add(b, samples) == [b EXCEPT !.result.samples = @ \o samples]

\* The function returns.
Return(b) == [b EXCEPT !.at = "end", !.done = TRUE]

\* The function ends in an exception.
Throw(b) == [b EXCEPT !.at = "end", !.done = TRUE, !.result.threw = TRUE]

\* verticalBrowser.js lines 133-165: what follows the load of the page, up
\* to the await of collectCoreWebVitals' timer or of page.close().
VerticalAfterLoad(b) ==
  LET ok == b.result.pageLoadSuccessful
      timed == IF ok THEN Add(b, <<Sample("browser_page_load_time", 0)>>) ELSE b
  IN IF ok /\ b.outcome.template # "serverStatus"
     THEN Await(timed, "setTimeout")
     ELSE Await(timed, "page.close")

\* tests/browser/verticalBrowser.js, the default function, from one await
\* to the next. collectCoreWebVitals of browserMetrics.js hands back
\* numbers whatever page.evaluate gives, 0 when it rejects.
verticalBrowserStep(b) ==
  LET o == b.outcome
  IN CASE b.at = "start" ->
            IF o.urlData = "null" THEN Return(b) ELSE Await(b, "browser.newPage")
       [] b.at = "browser.newPage" ->
            IF o.newPageThrows THEN Throw(b)
            ELSE Await([b EXCEPT !.result.pageLoadSuccessful = TRUE,
                                 !.result.opened = {"page"}], "page.goto")
       [] b.at = "page.goto" ->
            IF o.goto.kind = "response"
            THEN Await([b EXCEPT !.result.pageLoadSuccessful = o.goto.status < 400],
                       "waitForLoadState:domcontentloaded")
            ELSE VerticalAfterLoad([b EXCEPT !.result.pageLoadSuccessful = FALSE])
       [] b.at = "waitForLoadState:domcontentloaded" ->
            IF o.domContentLoadedThrows
            THEN VerticalAfterLoad([b EXCEPT !.result.pageLoadSuccessful = FALSE])
            ELSE Await(b, "waitForLoadState:networkidle")
       [] b.at = "waitForLoadState:networkidle" -> VerticalAfterLoad(b)
       [] b.at = "setTimeout" -> Await(b, "page.evaluate")
       [] b.at = "page.evaluate" -> Await(Add(b, CoreWebVitalsSamples), "page.close")
       [] b.at = "page.close" ->
            LET closed == [b EXCEPT !.result.closeCalled = {"page"}]
            IN IF o.closeThrows THEN Throw(closed)
               ELSE Return(Add(closed, <<RateSample("browser_page_load_success",
                                                    b.result.pageLoadSuccessful)>>))

\* utils/coreVitals.js collectCoreWebVitals hands back what page.evaluate
\* resolved with, and { lcp: null, fcp: null, cls: 0, ttfb: null } when it
\* rejects: the metrics that are numbers in what the caller destructures
\* (destructuring null throws, which the caller catches).
coreVitalsNumbers(evaluate) ==
  CASE evaluate = "values" -> {"lcp", "fcp", "cls", "ttfb"}
    [] evaluate = "noLcp" -> {"fcp", "cls", "ttfb"}
    [] evaluate = "null" -> {}
    [] OTHER -> {"cls"}

\* k6Browsertest.js lines 261-264: if (typeof lcp === 'number') ... add
GuardedCoreWebVitalsSamples(numbers) ==
  LET IsNumber(sample) == \E i \in 1..Len(CoreWebVitals) :
                            /\ CoreWebVitals[i] \in numbers
                            /\ sample = CoreWebVitalsSamples[i]
  IN SelectSeq(CoreWebVitalsSamples, IsNumber)

\* tests/browser/k6Browsertest.js, the default function, from one await to
\* the next.
k6BrowsertestStep(b) ==
  LET o == b.outcome
  IN CASE b.at = "start" ->
            IF o.urlData = "null" THEN Return(b) ELSE Await(b, "browser.newPage")
       [] b.at = "browser.newPage" ->
            IF o.newPageThrows THEN Throw(b)
            ELSE Await([b EXCEPT !.result.pageLoadSuccessful = TRUE,
                                 !.result.opened = {"page"}], "page.goto")
       [] b.at = "page.goto" ->
            IF o.goto.kind # "response"
            THEN Await(Add([b EXCEPT !.result.pageLoadSuccessful = FALSE],
                           <<RateSample("browser_page_load_success", FALSE)>>),
                       "page.close")
            ELSE LET pageLoadSuccessful == o.goto.status \in {200, 0}
                     loaded ==
                       Add([b EXCEPT !.result.pageLoadSuccessful = pageLoadSuccessful],
                           <<Sample("browser_page_load_time", 0),
                             RateSample("browser_page_load_success",
                                        pageLoadSuccessful)>>)
                 IN IF pageLoadSuccessful /\ o.template # "serverStatus"
                    THEN Await(loaded, "page.evaluate")
                    ELSE Await(loaded, "page.close")
       [] b.at = "page.evaluate" ->
            Await(Add(b, GuardedCoreWebVitalsSamples(coreVitalsNumbers(o.evaluate))),
                  "page.close")
       [] b.at = "page.close" -> Return([b EXCEPT !.result.closeCalled = {"page"}])

\* utils/browserMetrics.js collectCoreWebVitals(page): the fields of its
\* result that are numbers. The page makes a number of every field, the
\* catch returns 0 for every field, and null is handed back as null.
browserMetricsNumbers(evaluate) ==
  LET timings == {"serverTime", "networkTime", "domProcessingTime"}
  IN CASE evaluate \in {"values", "rejects"} -> {"lcp", "fcp", "cls", "ttfb"} \cup timings
       [] evaluate = "noLcp" -> {"fcp", "cls", "ttfb"} \cup timings
       [] evaluate = "null" -> {}
       [] OTHER -> {"cls"}

\* A sample of a metric, when a condition holds.
SampleIf(condition, metric) == IF condition THEN <<Sample(metric, 0)>> ELSE <<>>

\* collectAllMetrics lines 505-536: what it adds once collectCoreWebVitals
\* has returned, a metric when its field is a number and it is defined.
CoreWebVitalsOfAllMetrics(defs, numbers) ==
  SampleIf("fcp" \in numbers /\ defs.includeCoreWebVitals, "browser_fcp")
    \o SampleIf("cls" \in numbers /\ defs.includeCoreWebVitals, "browser_cls")
    \o SampleIf("ttfb" \in numbers /\ defs.includeCoreWebVitals, "browser_ttfb")
    \o SampleIf("serverTime" \in numbers /\ defs.includeDetailedTimingMetrics,
                "browser_server_processing_time")
    \o SampleIf("networkTime" \in numbers /\ defs.includeDetailedTimingMetrics,
                "browser_network_time")
    \o SampleIf("domProcessingTime" \in numbers /\ defs.includeDetailedTimingMetrics,
                "browser_dom_processing_time")

\* collectAllMetrics lines 539-673: what it adds once collectResourceTiming
\* has returned, whose catch returns statistics of zeros; a total is added
\* when it is above 0, and LCP comes last.
ResourcesOfAllMetrics(defs, numbers, positive) ==
  SampleIf(defs.includeResourceMetrics, "browser_js_load_time")
    \o SampleIf(defs.includeResourceMetrics, "browser_css_load_time")
    \o SampleIf(defs.includeResourceMetrics, "browser_img_load_time")
    \o SampleIf(defs.includeResourceMetrics, "browser_font_load_time")
    \o SampleIf(defs.includeResourceMetrics, "browser_other_resource_load_time")
    \o SampleIf("totalDownloadTime" \in positive /\ defs.includeResourceMetrics,
                "browser_total_download_time")
    \o SampleIf("criticalPathTime" \in positive /\ defs.includeResourceMetrics,
                "browser_critical_path_time")
    \o SampleIf("parallelDownloadEfficiency" \in positive
                  /\ defs.includeResourceMetrics,
                "browser_parallel_download_efficiency")
    \o SampleIf("scriptParsingTime" \in positive /\ defs.includeDetailedTimingMetrics,
                "browser_script_parsing_time")
    \o SampleIf("scriptExecutionTime" \in positive /\ defs.includeDetailedTimingMetrics,
                "browser_script_execution_time")
    \o SampleIf("lcp" \in numbers /\ defs.includeCoreWebVitals, "browser_lcp")

\* The steps of collectAllMetrics and scrollPageToMiddle, which catch what
\* their page.evaluate calls throw; `after` is what follows their return.
CollectAllMetricsAwaits ==
  {"setTimeout", "page.evaluate", "page.evaluate:resources", "page.evaluate:scroll"}

collectAllMetricsStep(b, after) ==
  LET defs == b.outcome.metricDefinitions
      numbers == browserMetricsNumbers(b.outcome.evaluate)
      positive == IF b.outcome.resources.rejects THEN {}
                  ELSE b.outcome.resources.positive
  IN CASE b.at = "setTimeout" -> Await(b, "page.evaluate")
       [] b.at = "page.evaluate" ->
            Await(Add(b, CoreWebVitalsOfAllMetrics(defs, numbers)),
                  "page.evaluate:resources")
       [] b.at = "page.evaluate:resources" ->
            Await(Add(b, ResourcesOfAllMetrics(defs, numbers, positive)),
                  "page.evaluate:scroll")
       [] b.at = "page.evaluate:scroll" -> after

\* loadPageAndCollectMetrics lines 51-70 of utils/browserUtils.js, the same
\* in the later version: what follows a page.goto that did not throw, up to
\* the await `collect` or the return.
LoadPageAfterGoto(b, collect) ==
  LET o == b.outcome
      pageLoadSuccessful == o.goto.kind = "response" /\ o.goto.status \in {200, 0}
      loaded ==
        Add([b EXCEPT !.result.pageLoadSuccessful = pageLoadSuccessful,
                      !.result.success = pageLoadSuccessful],
            <<Sample("browser_page_load_time", 0),
              RateSample("browser_page_load_success", pageLoadSuccessful)>>)
  IN IF ~pageLoadSuccessful \/ b.transaction = "serverStatus"
     THEN Return(loaded)
     ELSE Await(loaded, collect)

\* recordMantleMetrics(metrics, tags, mantleMetricDefinitions): a sample
\* of each defined Mantle metric that is a number in what Mntl.trace() gave.
recordMantleMetrics(numbers) ==
  LET IsNumber(key) == key \in numbers
      keys == SelectSeq(MantleKeys, IsNumber)
  IN [i \in 1..Len(keys) |-> Sample("browser_mantle_" \o keys[i], 0)]

\* The await of collectMantleMetrics, its page.evaluate.
MantleAwait == "page.evaluate:mantle"

\* utils/browserUtils.js collectMantleMetrics(page, tags,
\* metricDefinitions), once its page.evaluate has settled: it records what
\* an object gave, and returns null when the page gave none or the
\* evaluation rejected.
collectMantleMetricsStep(b) ==
  IF b.outcome.mantle.kind = "object"
  THEN Add(b, recordMantleMetrics(b.outcome.mantle.numbers))
  ELSE b

\* utils/browserUtils.js loadPageAndCollectMetrics(url, tags,
\* metricDefinitions), from one await to the next; it returns an object
\* with success, or throws what newContext and newPage throw. It does not
\* look at what they resolve with: newPage of a null context throws at
\* line 32, and goto of a null page throws inside the try of line 42. It
\* awaits collectMantleMetrics last, when the definitions were built with
\* captureMantleMetrics.
loadPageAndCollectMetricsStep(b) ==
  LET o == b.outcome
  IN CASE b.at = "start" -> Await(b, "browser.newContext")
       [] b.at = "browser.newContext" ->
            IF o.newContextThrows \/ o.newContextGives = "null" THEN Throw(b)
            ELSE Await([b EXCEPT !.result.opened = {"context"}], "context.newPage")
       [] b.at = "context.newPage" ->
            IF o.newPageThrows THEN Throw(b)
            ELSE IF o.newPageGives = "null" THEN Return(b)
            ELSE Await([b EXCEPT !.result.opened = {"context", "page"}], "page.goto")
       [] b.at = "page.goto" ->
            IF o.goto.kind = "throws" THEN Return(b)
            ELSE LoadPageAfterGoto(b, "setTimeout")
       [] b.at \in CollectAllMetricsAwaits ->
            collectAllMetricsStep(b, IF o.metricDefinitions.captureMantleMetrics
                                     THEN Await(b, MantleAwait)
                                     ELSE Return(b))
       [] b.at = MantleAwait -> Return(collectMantleMetricsStep(b))

\* The later loadPageAndCollectMetrics (tests/fistest.js lines 79-269), from
\* one await to the next: it returns at once when the url is no string or
\* is empty, names the transaction 'unknown' when the tags have none,
\* catches what newContext and newPage throw and returns no page and no
\* context, as it does when they resolve with nothing (the context is then
\* closed, whatever close() throws), awaits page.evaluate before page.goto
\* and before collectAllMetrics, and records a failed load when the
\* navigation throws. It does not collect the Mantle metrics.
laterLoadPageAndCollectMetricsStep(b) ==
  LET o == b.outcome
      navigationError == Return(Add(b, <<RateSample("browser_page_load_success", FALSE)>>))
  IN CASE b.at = "start" ->
            IF o.url # "string" THEN Return(b)
            ELSE Await([b EXCEPT !.transaction = IF @ = "" THEN "unknown" ELSE @],
                       "browser.newContext")
       [] b.at = "browser.newContext" ->
            IF o.newContextThrows \/ o.newContextGives = "null" THEN Return(b)
            ELSE Await([b EXCEPT !.result.opened = {"context"}], "context.newPage")
       [] b.at = "context.newPage" ->
            IF o.newPageThrows THEN Return(b)
            ELSE IF o.newPageGives = "null" THEN Await(b, "context.close")
            ELSE Await([b EXCEPT !.result.opened = {"context", "page"}], BeforeGoto)
       [] b.at = "context.close" ->
            Return([b EXCEPT !.result.closeCalled = @ \cup {"context"}])
       [] b.at = BeforeGoto ->
            IF o.rejectsAt = BeforeGoto THEN navigationError ELSE Await(b, "page.goto")
       [] b.at = "page.goto" ->
            IF o.goto.kind = "throws" THEN navigationError
            ELSE LoadPageAfterGoto(b, BeforeCollect)
       [] b.at = BeforeCollect ->
            IF o.rejectsAt = BeforeCollect
            THEN Return([b EXCEPT !.result.success = FALSE])
            ELSE Await(b, "setTimeout")
       [] b.at \in CollectAllMetricsAwaits -> collectAllMetricsStep(b, Return(b))

\* The loadPageAndCollectMetrics of the version of browserUtils.js that the
\* script imports.
ImportedLoadPageStep(b) ==
  IF b.browserUtils = "tests/fistest.js"
  THEN laterLoadPageAndCollectMetricsStep(b)
  ELSE loadPageAndCollectMetricsStep(b)

\* helpers.js lines 126-132: the finally block. page and context are
\* assigned only after homeResult.success was read as true.
HelpersFinally(b) ==
  IF b.result.success THEN Await(b, "page.close") ELSE Return(b)

\* The await that follows the i-th of a list, `after` following the last.
NextAwait(awaits, label, after) ==
  LET i == CHOOSE k \in 1..Len(awaits) : awaits[k] = label
  IN IF i < Len(awaits) THEN awaits[i + 1] ELSE after

\* helpers.js, the default function, from one await to the next: the home
\* page with loadPageAndCollectMetrics, the search with
\* performNavigationAndCollectMetrics, and closeBrowserResources, which
\* catches what close() throws. The browserUtils.js of src/utils has no
\* performNavigationAndCollectMetrics: the call of the undefined import
\* throws a TypeError, which the catch of line 121 takes.
helpersStep(b) ==
  LET o == b.outcome
      home == b.transaction = "GrafanaHome"
      called == ImportedLoadPageStep(b)
      later == b.browserUtils = "tests/fistest.js"
  IN CASE home /\ called.done /\ called.result.threw ->
            HelpersFinally([called EXCEPT !.at = b.at, !.done = FALSE,
                                          !.result.threw = FALSE])
       [] home /\ called.done /\ ~called.result.threw ->
            IF called.result.success
            THEN [called EXCEPT !.at = HelpersAwaits[1], !.done = FALSE,
                                !.transaction = "GrafanaSiteSearch"]
            ELSE Return(called)
       [] home /\ ~called.done -> called
       [] ~home /\ b.at \in Range(HelpersAwaits) ->
            IF o.rejectsAt = b.at THEN HelpersFinally(b)
            ELSE IF b.at = HelpersAwaits[Len(HelpersAwaits)] /\ ~later
            THEN HelpersFinally(b)
            ELSE Await(b, NextAwait(HelpersAwaits, b.at, NavigationAwaits[1]))
       [] ~home /\ b.at \in Range(NavigationAwaits) ->
            IF o.rejectsAt = b.at THEN Await(b, LastHelpersAwait)
            ELSE IF b.at # NavigationAwaits[Len(NavigationAwaits)]
            THEN Await(b, NextAwait(NavigationAwaits, b.at, ""))
            ELSE Await(Add(b, <<Sample("browser_page_load_time", 0),
                                RateSample("browser_page_load_success", TRUE)>>),
                       "setTimeout")
       [] ~home /\ b.at \in CollectAllMetricsAwaits ->
            collectAllMetricsStep(b, Await(b, LastHelpersAwait))
       [] ~home /\ b.at = LastHelpersAwait -> HelpersFinally(b)
       [] ~home /\ b.at = "page.close" ->
            Await([b EXCEPT !.result.closeCalled = {"page"}], "context.close")
       [] ~home /\ b.at = "context.close" ->
            Return([b EXCEPT !.result.closeCalled = {"page", "context"}])

\* A function run from a state of it to its end.
RECURSIVE verticalBrowserRun(_)
verticalBrowserRun(b) ==
  IF b.done THEN b ELSE verticalBrowserRun(verticalBrowserStep(b))

RECURSIVE k6BrowsertestRun(_)
k6BrowsertestRun(b) ==
  IF b.done THEN b ELSE k6BrowsertestRun(k6BrowsertestStep(b))

RECURSIVE loadPageAndCollectMetricsRun(_)
loadPageAndCollectMetricsRun(b) ==
  IF b.done THEN b ELSE loadPageAndCollectMetricsRun(ImportedLoadPageStep(b))

RECURSIVE helpersRun(_)
helpersRun(b) == IF b.done THEN b ELSE helpersRun(helpersStep(b))

\* What a whole run of each function leaves.
verticalBrowserDefault(o) ==
  verticalBrowserRun(BrowserIteration("verticalBrowser", o)).result

k6BrowsertestDefault(o) ==
  k6BrowsertestRun(BrowserIteration("k6Browsertest", o)).result

loadPageAndCollectMetrics(o) ==
  loadPageAndCollectMetricsRun(BrowserIteration("loadPageAndCollectMetrics", o)).result

helpersDefault(o) == helpersRun(BrowserIteration("helpers", o)).result

\* An iteration of a script that imports the later browserUtils.js.
WithLaterBrowserUtils(b) == [b EXCEPT !.browserUtils = "tests/fistest.js"]

\* What a whole run leaves with the later browserUtils.js.
laterLoadPageAndCollectMetrics(o) ==
  loadPageAndCollectMetricsRun(
    WithLaterBrowserUtils(BrowserIteration("loadPageAndCollectMetrics", o))).result

laterHelpersDefault(o) ==
  helpersRun(WithLaterBrowserUtils(BrowserIteration("helpers", o))).result

\* if (!urlData): what the default function makes of what next() handed it.
UrlData(item) == IF item.kind = "row" THEN "row" ELSE "null"

\* The iterator after a step of the default function that left the
\* iteration as b: the iteration of the VU ends when the function does.
IteratorAfter(c, b) == IF b.done THEN IterationEnded(c, b.vu) ELSE c

\* The iterations of the default function that a VU runs on a script with a
\* urlIterator.
MaxBrowserIterations == 3

\* The scripts that take a row of the CSV data in each iteration, and so
\* carry the place of the iterator from one iteration to the next.
UrlIteratorFunctions == {"verticalBrowser", "k6Browsertest"}

\* createCsvIterator(csvData, { selectionMode: __ENV.SELECTION_MODE })
ScriptIteratorOptions ==
  {EmptyMap} \cup {[selectionMode |-> m] :
                     m \in {"sequential", "global_sequential", "random"}}

\* The outcomes of function f with a version of browserUtils.js, when the
\* iterator of the script (if it has one) is c. Over no data next() hands
\* back null and the default function returns before it touches the browser.
IterationOutcomes(f, version, c) ==
  IF f = "loadPageAndCollectMetrics" /\ version = "tests/fistest.js"
  THEN LaterLoadPageOutcomes
  ELSE IF f \in UrlIteratorFunctions
  THEN IF c.it.empty
       THEN {Outcome("null", "home", g) : g \in GotoOutcomes}
       ELSE {o \in BrowserOutcomes[f] : o.urlData = "row"}
  ELSE BrowserOutcomes[f]

\* k6 starts the next iteration of the default function of a script with a
\* urlIterator on the VU: the positions the iterator holds carry over.
VuStartBrowserIteration ==
  /\ pc = "browser"
  /\ browser.function \in UrlIteratorFunctions
  /\ browser.done
  /\ browser.iteration + 1 < MaxBrowserIterations
  /\ \E o \in IterationOutcomes(browser.function, browser.browserUtils, csv) :
       browser' = [BrowserIteration(browser.function, o)
                     EXCEPT !.vu = browser.vu,
                            !.iteration = browser.iteration + 1,
                            !.browserUtils = browser.browserUtils]
  /\ csv' = IterationStarted(csv, browser.vu)
  /\ UNCHANGED <<pc, fileCreated, lines, stats, scenarioConfig>>
  /\ UNCHANGED shellVars
  /\ UNCHANGED nodeVars

\* k6 runs an iteration of tests/browser/verticalBrowser.js up to its next
\* await; the first step calls urlIterator.next().
RunVerticalBrowser ==
  /\ pc = "browser"
  /\ browser.function = "verticalBrowser"
  /\ ~browser.done
  /\ browser' = verticalBrowserStep(browser)
  /\ IF browser.at = "start"
     THEN \E item \in IteratorNextItems(csv.it, browser.vu,
                                        csv.vu[browser.vu].iteration) :
            /\ UrlData(item) = browser.outcome.urlData
            /\ csv' = IteratorAfter(NextReturned(csv, browser.vu, item), browser')
     ELSE csv' = IteratorAfter(csv, browser')
  /\ UNCHANGED <<pc, fileCreated, lines, stats, scenarioConfig>>
  /\ UNCHANGED shellVars
  /\ UNCHANGED nodeVars

\* k6 runs an iteration of tests/browser/k6Browsertest.js up to its next
\* await; the first step calls urlIterator.next().
RunK6Browsertest ==
  /\ pc = "browser"
  /\ browser.function = "k6Browsertest"
  /\ ~browser.done
  /\ browser' = k6BrowsertestStep(browser)
  /\ IF browser.at = "start"
     THEN \E item \in IteratorNextItems(csv.it, browser.vu,
                                        csv.vu[browser.vu].iteration) :
            /\ UrlData(item) = browser.outcome.urlData
            /\ csv' = IteratorAfter(NextReturned(csv, browser.vu, item), browser')
     ELSE csv' = IteratorAfter(csv, browser')
  /\ UNCHANGED <<pc, fileCreated, lines, stats, scenarioConfig>>
  /\ UNCHANGED shellVars
  /\ UNCHANGED nodeVars

\* k6 runs an iteration of helpers.js up to its next await.
RunHelpers ==
  /\ pc = "browser"
  /\ browser.function = "helpers"
  /\ ~browser.done
  /\ browser' = helpersStep(browser)
  /\ UNCHANGED <<pc, fileCreated, lines, stats, scenarioConfig, csv>>
  /\ UNCHANGED shellVars
  /\ UNCHANGED nodeVars

\* A call of loadPageAndCollectMetrics runs up to its next await.
CallLoadPageAndCollectMetrics ==
  /\ pc = "browser"
  /\ browser.function = "loadPageAndCollectMetrics"
  /\ ~browser.done
  /\ browser' = ImportedLoadPageStep(browser)
  /\ UNCHANGED <<pc, fileCreated, lines, stats, scenarioConfig, csv>>
  /\ UNCHANGED shellVars
  /\ UNCHANGED nodeVars

-----
(* Specifications.                                                         *)

InitNode ==
  /\ fileCreated = FALSE
  /\ lines = <<>>
  /\ idx = 1
  /\ testType = ""
  /\ testMeta = NoMeta
  /\ data = InitialData
  /\ templateMetricCounts = EmptyMap
  /\ report = NoReport
  /\ reportFilename = ""

\* No test script is loaded.
InitScript ==
  /\ scenarioConfig = NotLoaded
  /\ csv = NoIterator
  /\ browser = NoBrowser

\* A run of run_k6_tests.sh on any command line.
Init ==
  /\ pc = "start"
  /\ \E t \in TestTypeArgs, a \in AutArgs, s \in ScenarioArgs :
       ShellInit(CommandLine(t, a, s), NoEnv)
  /\ InitNode
  /\ stats = NoStats
  /\ InitScript

Next ==
  \/ ShellArg
  \/ ShellArgExit1
  \/ ShellStartK6
  \/ ShellExit1
  \/ K6Run(SampleOutputs)
  \/ K6Fails
  \/ NodeReadFails
  \/ NodeStart
  \/ NodeLine
  \/ NodeReport

Spec == Init /\ [][Next]_vars

\* A run on a valid command line, with every output k6 can write.
InitReport ==
  /\ pc = "start"
  /\ \E t \in {"BROWSER", "PROTOCOL", "API"} :
       ShellInit(CommandLine(t, "shape", "smoke"), NoEnv)
  /\ InitNode
  /\ stats = NoStats
  /\ InitScript

NextReport ==
  \/ ShellArg
  \/ ShellStartK6
  \/ K6Run(K6Outputs)
  \/ NodeStart
  \/ NodeLine
  \/ NodeReport

SpecReport == InitReport /\ [][NextReport]_vars

\* A browser run whose output has enough points of a template to pass the
\* template filter.
InitFallback ==
  /\ pc = "start"
  /\ ShellInit(CommandLine("BROWSER", "shape", "smoke"), NoEnv)
  /\ InitNode
  /\ stats = NoStats
  /\ InitScript

NextFallback ==
  \/ ShellArg
  \/ ShellStartK6
  \/ K6Run(FallbackOutputs)
  \/ NodeStart
  \/ NodeLine
  \/ NodeReport

SpecFallback == InitFallback /\ [][NextFallback]_vars

\* A run on a valid command line whose output holds points with nested
\* tags and points of resources.
InitGroup ==
  /\ pc = "start"
  /\ \E t \in {"BROWSER", "PROTOCOL", "API"} :
       ShellInit(CommandLine(t, "shape", "smoke"), NoEnv)
  /\ InitNode
  /\ stats = NoStats
  /\ InitScript

NextGroup ==
  \/ ShellArg
  \/ ShellStartK6
  \/ K6Run(GroupOutputs)
  \/ NodeStart
  \/ NodeLine
  \/ NodeReport

SpecGroup == InitGroup /\ [][NextGroup]_vars

\* The statistics functions on every input.
InitStats ==
  /\ pc = "stats"
  /\ ShellInit(<<>>, NoEnv)
  /\ InitNode
  /\ stats \in {[NoStats EXCEPT !.input = in] : in \in StatInputs}
  /\ InitScript

NextStats ==
  \/ CallCalculateStats
  \/ CallCalculateStatsProtocol

SpecStats == InitStats /\ [][NextStats]_vars

\* What a caller writes for each parameter: nothing, an empty value, or a
\* value (README.md gives --scenario=load, --vus and --duration as examples).
ScriptChoices ==
  {<<>>, <<"--script=">>, <<"--script=api.js">>, <<"--script=verticalBrowser.js">>,
   <<"--script=vertical copy.js">>}
TestTypeChoices ==
  {<<>>, <<"--test-type=">>, <<"--test-type=API">>, <<"--test-type=PROTOCOL">>,
   <<"--test-type=BROWSER">>, <<"--test-type=PROTO">>, <<"--test-type=browser">>}
EnvironmentChoices == {<<>>, <<"--environment=">>, <<"--environment=qa">>}
BaseUrlChoices == {<<>>, <<"--base-url=">>, <<"--base-url=https://example.com">>}
ScenarioChoices ==
  {<<>>, <<"--scenario=load">>, <<"--scenario=soak">>, <<"--scenario=custom-tps">>,
   <<"--scenario=stresstest">>}
OtherChoices ==
  {<<>>, <<"--vus=10", "--duration=30s">>, <<"--capture-mantle-metrics=false">>,
   <<"--ramping-stages=10s:1,2m:35", "--time-unit=1m">>}

\* What the caller's environment holds.
CallerEnvs ==
  {NoEnv, [NoEnv EXCEPT !.CAPTURE_MANTLE_METRICS = "false"],
   [NoEnv EXCEPT !.ENVIRONMENT = "qa"]}

\* run_k6_tests.sh up to the load of the test script, on command lines that leave out,
\* empty or misspell parameters.
InitShell ==
  /\ pc = "start"
  /\ \E s \in ScriptChoices, t \in TestTypeChoices, e \in EnvironmentChoices,
        b \in BaseUrlChoices, sc \in ScenarioChoices, o \in OtherChoices,
        env \in CallerEnvs :
       ShellInit(s \o t \o e \o b \o sc \o o, env)
  /\ InitNode
  /\ stats = NoStats
  /\ InitScript

NextShell ==
  \/ ShellArg
  \/ ShellArgExit1
  \/ ShellStartK6
  \/ ShellExit1
  \/ K6LoadScript

SpecShell == InitShell /\ [][NextShell]_vars

\* The options a test script can hand to createCsvIterator.
SelectionModes == {"sequential", "global_sequential", "random"}

IteratorOptions ==
  {[selectionMode |-> m, resetOnIterationEnd |-> r] :
     m \in SelectionModes, r \in BOOLEAN}

\* The iterations of a test script over CSV data of up to MaxRows rows.
InitCsv ==
  /\ pc = "iterating"
  /\ ShellInit(<<>>, NoEnv)
  /\ InitNode
  /\ stats = NoStats
  /\ scenarioConfig = NotLoaded
  /\ \E n \in 0..MaxRows, options \in IteratorOptions :
       csv = NewIterator(n, options)
  /\ browser = NoBrowser

NextCsv ==
  \/ \E v \in VUs : VuStartIteration(v)
  \/ \E v \in VUs : IterNext(v)
  \/ \E v \in VUs : IterReset(v)
  \/ \E v \in VUs : VuEndIteration(v)

SpecCsv == InitCsv /\ [][NextCsv]_vars

\* The iterations of a browser test on a VU, whatever the browser does: k6
\* has started the first. The scripts with a urlIterator run over CSV data
\* of up to MaxRows rows; helpers.js and a caller of
\* loadPageAndCollectMetrics import one of the versions of browserUtils.js.
InitBrowser ==
  /\ pc = "browser"
  /\ ShellInit(<<>>, NoEnv)
  /\ InitNode
  /\ stats = NoStats
  /\ scenarioConfig = NotLoaded
  /\ \E f \in BrowserFunctions :
       IF f \in UrlIteratorFunctions
       THEN \E n \in 0..MaxRows, options \in ScriptIteratorOptions, v \in VUs :
              /\ csv = IterationStarted(NewIterator(n, options), v)
              /\ \E o \in IterationOutcomes(f, "utils/browserUtils.js", csv) :
                   browser = [BrowserIteration(f, o) EXCEPT !.vu = v]
       ELSE /\ csv = NoIterator
            /\ \E version \in BrowserUtilsVersions :
                 \E o \in IterationOutcomes(f, version, csv) :
                   browser = [BrowserIteration(f, o) EXCEPT !.browserUtils = version]

NextBrowser ==
  \/ RunVerticalBrowser
  \/ RunK6Browsertest
  \/ CallLoadPageAndCollectMetrics
  \/ RunHelpers
  \/ VuStartBrowserIteration

SpecBrowser == InitBrowser /\ [][NextBrowser]_vars

-----------------------------------------------------------------------------
(* Properties of a run of run_k6_tests.sh.                                 *)

\* The report processor ran to its end on the file k6 wrote.
ReportWritten == pc = "done" /\ fileCreated

\* C1: when run_k6_tests.sh is started with --test-type=T, T one of BROWSER,
\* PROTOCOL and API, the report is built by the generator for T, whatever
\* --aut and --scenario are.
C1_GeneratorOfTestType ==
  ReportWritten =>
    /\ TEST_TYPE = "BROWSER" => report.generator = "browser"
    /\ TEST_TYPE = "PROTOCOL" => report.generator = "protocol"
    /\ TEST_TYPE = "API" => report.generator = "api"

\* C2 as the specification states it: a run with test type T, AUT A and
\* scenario S writes the HTML report to results/T_A_S_report.html.
C2_ReportPath ==
  ReportWritten =>
    reportFilename =
      "results/" \o TEST_TYPE \o "_" \o AUT \o "_" \o SCENARIO_TYPE \o "_report.html"

\* C2: a run with test type T, AUT A and scenario S writes the HTML report to
\* the path of the k6 output, results/T_A_S.json, with its first ".json"
\* replaced by "_report.html": to results/T_A_S_report.html when A holds no
\* ".json", and otherwise to the path in which the first ".json" of A is
\* replaced and the extension is left.
C2_ReportPathFirstJson ==
  ReportWritten =>
    /\ ~Includes(AUT, ".json") =>
         reportFilename =
           "results/" \o TEST_TYPE \o "_" \o AUT \o "_" \o SCENARIO_TYPE
             \o "_report.html"
    /\ Includes(AUT, ".json") =>
         reportFilename =
           "results/" \o TEST_TYPE \o "_" \o ReplaceFirst(AUT, ".json", "_report.html")
             \o "_" \o SCENARIO_TYPE \o ".json"

\* A report was written for an AUT that holds ".json": its path ends in
\* ".json".
C2_Witness ==
  /\ ReportWritten
  /\ AUT = "a.json"
  /\ reportFilename =
       "results/" \o TEST_TYPE \o "_a_report.html_" \o SCENARIO_TYPE \o ".json"

-----------------------------------------------------------------------------
(* Properties of the aggregation.                                          *)

\* The line the first pass is at is a Point whose tags hold `transaction`.
AtTransactionPoint ==
  /\ pc = "lines" /\ idx <= Len(lines)
  /\ lines[idx].parses /\ lines[idx].type = "Point"
  /\ lines[idx].tags.present
  /\ lines[idx].tags.transaction # ""

\* The groups of data: every aggregate keyed by transaction name.
GroupKeys == DOMAIN InitialData \ {"resource_details"}

\* The aggregate a metric of the Core Web Vitals or of the HTTP timings goes
\* to in a run of test type tt ("" for a metric that is not aggregated).
GroupOfMetric(metric, tt) ==
  CASE metric = "browser_lcp" -> "lcp"
    [] metric = "browser_fcp" -> "fcp"
    [] metric = "browser_cls" -> "cls"
    [] metric = "browser_ttfb" -> "ttfb"
    [] metric = "browser_page_load_time" -> "pageLoadTime"
    [] metric = "http_req_waiting" /\ tt \in {"PROTOCOL", "API"} -> "protocol_ttfb"
    [] metric = "http_req_duration" /\ tt \in {"PROTOCOL", "API"} -> "protocol_ttlb"
    [] OTHER -> ""

ValuesOf(d, key, name) == IF name \in DOMAIN d[key] THEN d[key][name] ELSE <<>>

\* The list of data.resource_details a resource metric goes to in a run of
\* test type tt ("" for a metric of no resource).
ResourceListOfMetric(metric, tt) ==
  CASE metric = "browser_resource_js" /\ tt = "BROWSER" -> "js"
    [] metric = "protocol_resource_css" -> "css"
    [] OTHER -> ""

\* The point at line adds its value to the group named t and to no other:
\* every group of another name is left as it was, a metric that is
\* aggregated has its value appended to the group t of its aggregate, and a
\* resource metric has an entry of transaction t appended to the list of
\* its resource type.
GroupedUnder(line, t) ==
  LET key == GroupOfMetric(line.metric, testType)
      list == ResourceListOfMetric(line.metric, testType)
  IN /\ \A k \in GroupKeys :
          \A n \in (DOMAIN data[k] \cup DOMAIN data'[k]) \ {t} :
            /\ n \in DOMAIN data[k] /\ n \in DOMAIN data'[k]
            /\ data'[k][n] = data[k][n]
     /\ \A ty \in ResourceTypes \ {list} :
          data'.resource_details[ty] = data.resource_details[ty]
     /\ key # "" =>
          /\ t \in DOMAIN data'[key]
          /\ data'[key][t] = Append(ValuesOf(data, key, t), line.value)
          /\ \A k \in GroupKeys \ {key} : data'[k] = data[k]
     /\ list # "" =>
          /\ Len(data'.resource_details[list]) = Len(data.resource_details[list]) + 1
          /\ SubSeq(data'.resource_details[list], 1, Len(data.resource_details[list]))
               = data.resource_details[list]
          /\ LET entry == data'.resource_details[list][Len(data'.resource_details[list])]
             IN entry.transaction = t /\ entry.duration = line.value
          /\ \A k \in GroupKeys : data'[k] = data[k]

\* C3 as the specification states it: metric points are grouped by
\* transaction tag: a Point line that has a transaction tag adds its value
\* to the group named by that tag, and every other group is left as it was.
C3_GroupedByTransactionTag ==
  [][ (AtTransactionPoint /\ idx' = idx + 1) =>
        GroupedUnder(lines[idx], lines[idx].tags.transaction) ]_vars

\* The name a Point with a transaction tag is grouped under: its transaction
\* tag, unless its tags hold an entry named "tags", whose transaction then
\* names the group, "unknown" when it has none.
GroupNameOf(tags) ==
  IF ~tags.nested THEN tags.transaction
  ELSE IF tags.inner # "" THEN tags.inner
  ELSE "unknown"

\* C3: metric points are grouped by transaction: a Point line that has a
\* transaction tag adds its value to the group named by that tag, when its
\* tags hold no entry named "tags", and otherwise to the group named by the
\* transaction of that entry ("unknown" when it has none); every other
\* group is left as it was.
C3_GroupedByTransaction ==
  [][ (AtTransactionPoint /\ idx' = idx + 1) =>
        GroupedUnder(lines[idx], GroupNameOf(lines[idx].tags)) ]_vars

\* Three points that carry the transaction tag home were aggregated: one
\* in the group home, one in the group unknown, as the entry "tags" of its
\* tags has no transaction, and the resource in the list of its type.
C3_Witness ==
  /\ pc = "lines" /\ idx = 4
  /\ testType = "BROWSER"
  /\ lines = <<LcpHome, LcpTagsEmpty, ResourceJsHome>>
  /\ data.lcp = ("home" :> <<3>>) @@ ("unknown" :> <<6>>)
  /\ Len(data.resource_details.js) = 1
  /\ data.resource_details.js[1].transaction = "home"

\* C4: the results are grouped by template tag: a metric point emitted with
\* tag template=T is reported under T.
C4_GroupedByTemplate ==
  pc = "lines" =>
    \A i \in 1..(idx - 1) :
      LET line == lines[i]
          T == line.tags.template
      IN (/\ line.parses /\ line.type = "Point" /\ line.tags.present
          /\ T # "" /\ line.metric = "browser_lcp")
         => /\ T \in DOMAIN data.lcp
            /\ \E j \in 1..Len(data.lcp[T]) : data.lcp[T][j] = line.value

\* The lines of a file that parse as JSON.
Parses(line) == line.parses

RECURSIVE AggregateAll(_, _, _)
AggregateAll(d, fileLines, tt) ==
  IF fileLines = <<>> THEN d
  ELSE AggregateAll(AggregateLine(d, Head(fileLines), tt), Tail(fileLines), tt)

RECURSIVE CountAll(_, _)
CountAll(tmc, fileLines) ==
  IF fileLines = <<>> THEN tmc
  ELSE CountAll(CountLine(tmc, Head(fileLines)), Tail(fileLines))

\* C6: a line that cannot be parsed as JSON is skipped and changes no
\* aggregate; the well-formed Points before and after it are aggregated and
\* the report is written: the aggregates and the report are those of the
\* file without its unparseable lines.
C6_UnparseableLinesSkipped ==
  ReportWritten =>
    LET good == SelectSeq(lines, Parses)
        out == FinishReport(AggregateAll(InitialData, good, testType),
                            CountAll(EmptyMap, good), good, testType)
    IN /\ reportFilename # ""
       /\ data = out.data
       /\ report = out.report

\* A report was written from a file with an unparseable line between two
\* Points, both of which were aggregated.
C6_Witness ==
  /\ ReportWritten
  /\ reportFilename # ""
  /\ testType = "PROTOCOL"
  /\ lines = <<DurationHomeA, BadLine, DurationListB>>
  /\ data.protocol_ttlb = ("home" :> <<7>>) @@ ("list" :> <<4>>)
  /\ Len(report.rows) = 2

-----------------------------------------------------------------------------
(* Properties of the API and protocol report tables.                       *)

\* The requests k6 recorded with a transaction tag: the http_req_duration
\* points of the file, one per request.
RequestsOf(transaction) ==
  {i \in 1..Len(lines) :
     /\ lines[i].parses /\ lines[i].type = "Point" /\ lines[i].tags.present
     /\ lines[i].metric = "http_req_duration"
     /\ lines[i].tags.transaction = transaction}

\* The recorded status of a request is between 200 and 399.
StatusIn200To399(line) ==
  LET status == parseInt(line.tags.status)
  IN ~status.nan /\ status.n >= 200 /\ status.n <= 399

TableRows == Range(report.rows) \cup Range(report.nonHtmlRows)

\* C7: Success Rate is the share of the requests whose recorded status is
\* between 200 and 399: in every row, successes / requests is the share of
\* the transaction's recorded requests with such a status.
C7_SuccessRateIs200To399 ==
  (ReportWritten /\ report.generator \in {"api", "protocol"}) =>
    \A row \in TableRows :
      row.successCount * Cardinality(RequestsOf(row.source))
        = row.requests
            * Cardinality({i \in RequestsOf(row.source) : StatusIn200To399(lines[i])})

\* C8: in the API report the Requests value of an endpoint is the number of
\* requests recorded in the k6 output with the endpoint's transaction tag.
C8_RequestsIsCallCount ==
  (ReportWritten /\ report.generator = "api") =>
    \A row \in Range(report.rows) :
      row.requests = Cardinality(RequestsOf(row.source))

-----------------------------------------------------------------------------
(* Properties of the statistics functions.                                 *)

NonEmptyArray(x) == x.t = "array" /\ Len(x.v) > 0

\* Every statistic and the count are 0 and nothing was thrown.
AllZero(s) ==
  /\ ~s.threw
  /\ s.min = 0 /\ s.max = 0 /\ s.avg = Rat(0, 1)
  /\ s.p90 = 0 /\ s.p95 = 0 /\ s.p99 = 0 /\ s.count = 0

\* C5: calculateStats returns the empty stats object instead of throwing
\* for every malformed input: undefined, null, an empty array or a value
\* that is not an array of numbers.
C5_EmptyStatsOnMalformed ==
  /\ (stats.helpersDone /\ ~NonEmptyArray(stats.input)) =>
       AllZero(stats.helpers) /\ stats.helpers.median = Rat(0, 1)
  /\ (stats.protocolDone /\ ~NonEmptyArray(stats.input)) =>
       AllZero(stats.protocol) /\ stats.protocol.med = 0


\* The number of values of an array that satisfy a test.
CountOf(x, Test(_)) == Cardinality({i \in 1..Len(x.v) : Test(x.v[i])})

\* C9: at least 90% of the measurements of a non-empty list are at or below
\* the p90 the API report shows (generate-protocol-report.js calculateStats).
C9_P90AtOrAbove90Percent ==
  (stats.protocolDone /\ NonEmptyArray(stats.input)) =>
    LET AtOrBelow(v) == v <= stats.protocol.p90
    IN 10 * CountOf(stats.input, AtOrBelow) >= 9 * Len(stats.input.v)

\* C10: at least 90% of the values of a non-empty list are below the p90
\* that calculateStats returns, in the browser report (report-helpers.js)
\* and in the protocol report (generate-protocol-report.js).
C10_P90Above90Percent ==
  /\ (stats.helpersDone /\ NonEmptyArray(stats.input)) =>
       LET Below(v) == v < stats.helpers.p90
       IN 10 * CountOf(stats.input, Below) >= 9 * Len(stats.input.v)
  /\ (stats.protocolDone /\ NonEmptyArray(stats.input)) =>
       LET Below(v) == v < stats.protocol.p90
       IN 10 * CountOf(stats.input, Below) >= 9 * Len(stats.input.v)

-----------------------------------------------------------------------------
(* Properties of the command line of run_k6_tests.sh.                      *)

\* The command line holds a parameter that starts with pat.
HasFlag(pat) ==
  \E i \in 1..Len(invocation.args) : StartsWith(invocation.args[i], pat)

ListedTestTypes == {"BROWSER", "API", "PROTOCOL", "MULTI"}

\* The script ended on an error that is about another parameter.
OtherParameterRejected ==
  /\ pc = "exit1"
  /\ ~StartsWith(message, "Invalid test type")
  /\ ~Includes(message, "--test-type")

\* C11: k6 is started only if the test type is exactly one of BROWSER, API,
\* PROTOCOL, MULTI; with any other value of --test-type the script exits with
\* status 1, and, unless another parameter was rejected first, it has
\* printed 'Invalid test type'.
C11_K6OnlyForListedTestTypes ==
  /\ pc = "k6" => TEST_TYPE \in ListedTestTypes
  /\ ( /\ pc \in {"k6", "exit1"}
       /\ HasFlag("--test-type=")
       /\ NonEmpty(TEST_TYPE)
       /\ TEST_TYPE \notin ListedTestTypes ) =>
       /\ pc = "exit1"
       /\ StartsWith(message, "Invalid test type") \/ OtherParameterRejected

ListedScenarios ==
  {"smoke", "spiketest", "loadtest", "stresstest", "endurancetest", "custom-tps",
   "custom-vus"}

\* C12: k6 is started only if the scenario is exactly one of smoke,
\* spiketest, loadtest, stresstest, endurancetest, custom-tps, custom-vus;
\* with any other value of --scenario the script exits with status 1, and,
\* unless another parameter was rejected first, it has printed
\* 'Invalid scenario type'.
C12_K6OnlyForListedScenarios ==
  /\ pc = "k6" => SCENARIO_TYPE \in ListedScenarios
  /\ ( /\ pc \in {"k6", "exit1"}
       /\ HasFlag("--scenario=")
       /\ NonEmpty(SCENARIO_TYPE)
       /\ SCENARIO_TYPE \notin ListedScenarios ) =>
       /\ pc = "exit1"
       /\ message # ""
       /\ Includes(message, "scenario") => StartsWith(message, "Invalid scenario type")

\* The command line gives the parameter pat a value that is not empty.
GivenNonEmpty(pat) ==
  \E i \in 1..Len(invocation.args) :
    StartsWith(invocation.args[i], pat) /\ NonEmpty(ArgValue(invocation.args[i]))

RequiredParameters == {"--script=", "--environment=", "--test-type=", "--base-url="}

\* C13: when --script, --environment, --test-type or --base-url is absent
\* from the command line or has an empty value, the script exits with
\* status 1 and k6 is never started.
C13_RequiredParametersOrExit1 ==
  (pc \in {"k6", "exit1"} /\ \E pat \in RequiredParameters : ~GivenNonEmpty(pat)) =>
    pc = "exit1"

\* C14: a command line that holds --vus=<n> and --duration=<d> is not
\* rejected as holding an unknown parameter.
C14_VusAndDurationAccepted ==
  (HasFlag("--vus=") /\ HasFlag("--duration=") /\ pc = "exit1") =>
    ~StartsWith(message, "Unknown parameter")

\* C15: when the caller has set CAPTURE_MANTLE_METRICS and gives no
\* --capture-mantle-metrics parameter, the value that k6 and the report
\* processor are started with is the caller's value.
C15_CallerValueControlsMantleMetrics ==
  ( /\ pc = "k6"
    /\ ~HasFlag("--capture-mantle-metrics=")
    /\ NonEmpty(invocation.env.CAPTURE_MANTLE_METRICS) ) =>
    CAPTURE_MANTLE_METRICS = invocation.env.CAPTURE_MANTLE_METRICS

-----------------------------------------------------------------------------
(* Properties of the test scripts.                                         *)

\* k6 found the test script the command line names.
ScriptLoaded == scenarioConfig.loaded /\ K6ScriptPath \in DOMAIN TestScripts

\* C16: the custom-tps scenario that buildCustomScenario returns has a
\* timeUnit, and it is the value of --time-unit (1s when none was given).
C16_TimeUnitOfCustomTps ==
  (ScriptLoaded /\ SCENARIO_TYPE = "custom-tps") =>
    /\ "timeUnit" \in DOMAIN scenarioConfig.value
    /\ scenarioConfig.value.timeUnit = TIME_UNIT

-----------------------------------------------------------------------------
(* Properties of createCsvIterator.                                        *)

RowCount == Len(csv.it.csvData)

GlobalSequential ==
  csv.created /\ ~csv.it.empty /\ csv.it.selectionMode = "global_sequential"

PerVuSequential ==
  /\ csv.created
  /\ ~csv.it.empty
  /\ csv.it.selectionMode \notin {"random", "global_sequential"}

\* C17: in global_sequential mode iteration i of the test is handed row
\* i mod n of the n rows, so n consecutive iterations, whichever VUs run
\* them, are handed every row exactly once.
C17_GlobalSequentialByIteration ==
  GlobalSequential =>
    /\ \A i \in DOMAIN csv.received : csv.received[i] = RowItem(i % RowCount)
    /\ \A k \in DOMAIN csv.received :
         (\A i \in k..(k + RowCount - 1) : i \in DOMAIN csv.received) =>
           /\ {csv.received[i].row : i \in k..(k + RowCount - 1)} = 0..(RowCount - 1)
           /\ \A i, j \in k..(k + RowCount - 1) :
                csv.received[i] = csv.received[j] => i = j

\* Both VUs have run iterations in global_sequential mode and the rows
\* have wrapped around.
C17_Witness ==
  /\ GlobalSequential
  /\ RowCount >= 2
  /\ \A v \in VUs : csv.vu[v].calls >= 1
  /\ \A i \in 0..RowCount : i \in DOMAIN csv.received

\* C18 as the specification states it: in per-VU sequential mode with
\* resetOnIterationEnd = true, the k-th call of next() by a VU returns row
\* (k-1) mod n; next() never returns undefined, and the position stored
\* for a VU is within 0..n.
C18_KthCallReturnsRow ==
  (PerVuSequential /\ csv.it.resetOnIterationEnd) =>
    /\ \A v \in DOMAIN csv.it.vuPositions : csv.it.vuPositions[v] \in 0..RowCount
    /\ \A v \in VUs :
         csv.vu[v].calls >= 1 =>
           /\ csv.vu[v].last.kind = "row"
           /\ csv.vu[v].last = RowItem((csv.vu[v].calls - 1) % RowCount)

\* C18: in per-VU sequential mode with resetOnIterationEnd = true, the k-th
\* call of next() by a VU since its last call of reset() (since the
\* iterator was made, when it has called none) returns row (k-1) mod n;
\* next() never returns undefined, and the position stored for a VU is
\* within 0..n.
C18_PerVuSequentialWraps ==
  (PerVuSequential /\ csv.it.resetOnIterationEnd) =>
    /\ \A v \in DOMAIN csv.it.vuPositions : csv.it.vuPositions[v] \in 0..RowCount
    /\ \A v \in VUs :
         /\ csv.vu[v].calls >= 1 => csv.vu[v].last.kind = "row"
         /\ csv.vu[v].sinceReset >= 1 =>
              csv.vu[v].last = RowItem((csv.vu[v].sinceReset - 1) % RowCount)

\* A VU was handed row 0, called reset(), and has since called next() more
\* often than there are rows and got row 0 again, while its calls of next()
\* in all would have it at another row.
C18_Witness ==
  /\ PerVuSequential
  /\ csv.it.resetOnIterationEnd
  /\ RowCount >= 2
  /\ \E v \in VUs :
       /\ csv.vu[v].hasReset
       /\ csv.vu[v].sinceReset = RowCount + 1
       /\ csv.vu[v].last = RowItem(0)
       /\ RowItem((csv.vu[v].calls - 1) % RowCount) # RowItem(0)

\* The position stored for a VU (-1 when none is).
PositionOf(w) ==
  IF w \in DOMAIN csv.it.vuPositions THEN csv.it.vuPositions[w] ELSE -1

\* The row the next call of next() by w returns.
NextRowOf(w) == ItemAt(csv.it.csvData, PerVuPosition(csv.it, w))

\* C19: in per-VU sequential mode a call of next() or reset() by one VU
\* leaves the position of every other VU, and the row its next call
\* returns, as they were.
C19_OtherVusUntouched ==
  [][PerVuSequential =>
       \A w \in VUs :
         w # csv'.caller =>
           /\ PositionOf(w)' = PositionOf(w)
           /\ NextRowOf(w)' = NextRowOf(w)]_vars

\* A VU has just called reset() while another VU is part way through the
\* rows.
C19_Witness ==
  /\ PerVuSequential
  /\ \E v, w \in VUs :
       /\ v # w
       /\ csv.caller = v
       /\ csv.vu[v].hasReset
       /\ csv.vu[v].calls >= 1
       /\ PositionOf(v) = 0
       /\ PositionOf(w) >= 1

-----------------------------------------------------------------------------
(* Properties of a browser test iteration.                                 *)

\* The browser_page_load_success samples of the iteration.
SuccessSamples ==
  {i \in 1..Len(browser.result.samples) :
     browser.result.samples[i].metric = "browser_page_load_success"}

\* C20: an iteration of verticalBrowser.js or k6Browsertest.js, or a call of
\* loadPageAndCollectMetrics, that has obtained a URL records exactly one
\* browser_page_load_success sample, and its value is 1 exactly when the page
\* load succeeded, whether the navigation throws, ends in an error status or
\* an exception is raised.
C20_OneSuccessSamplePerIteration ==
  ( /\ browser.running
    /\ browser.done
    /\ browser.function # "helpers"
    /\ browser.outcome.urlData = "row"
    /\ browser.outcome.url = "string" ) =>
    /\ Cardinality(SuccessSamples) = 1
    /\ \A i \in SuccessSamples :
         browser.result.samples[i].value = 1 <=> browser.result.pageLoadSuccessful

\* The script has a scenario to run: one of config/scenario.js or a custom
\* one built from the ramping stages.
DefinedScenario(config) == "executor" \in DOMAIN config

\* C24: when the test type and the scenario are ones the validation of
\* run_k6_tests.sh lists, the test script that k6 loads has a defined
\* scenario configuration.
C24_ValidPairHasScenario ==
  ( /\ ScriptLoaded
    /\ TEST_TYPE \in ListedTestTypes
    /\ SCENARIO_TYPE \in ListedScenarios ) =>
    DefinedScenario(scenarioConfig.value)

\* C21: when an iteration of the browser test built on
\* loadPageAndCollectMetrics ends, close() has been called on every browser
\* context and page it opened, whether the home page loaded, failed to load
\* or an exception was raised.
C21_OpenedResourcesClosed ==
  (browser.running /\ browser.done /\ browser.function = "helpers") =>
    browser.result.opened \subseteq browser.result.closeCalled

-----------------------------------------------------------------------------
(* Properties of the templates of a report.                                *)

\* The metric points of the input that carry t as their transaction tag.
PointsOfTransaction(t) ==
  {i \in 1..Len(lines) :
     /\ lines[i].parses /\ lines[i].type = "Point" /\ lines[i].tags.present
     /\ getTransactionName(lines[i].tags) = t}

\* C23: a template name appears in the generated report only if at least 5
\* metric points of the input carry it as their transaction tag.
C23_OnlyExecutedTemplatesShown ==
  (pc = "done" /\ report.generator # "") =>
    \A i \in 1..Len(report.transactions) :
      Cardinality(PointsOfTransaction(report.transactions[i])) >= MinTemplateMetrics

\* The aggregates of data that hold the values parsed for a template.
ParsedGroups == {"lcp", "fcp", "cls", "ttfb", "pageLoadTime"}

\* C22: addFallbackDataIfNeeded leaves the values that were parsed from the
\* k6 output as they are: a template that has values for a metric before
\* the call has the same values after it.
C22_ParsedValuesKept ==
  [][ (pc = "lines" /\ pc' = "done" /\ testType = "BROWSER") =>
        \A k \in ParsedGroups :
          \A t \in DOMAIN data[k] :
            Len(data[k][t]) > 0 =>
              t \in DOMAIN data'[k] /\ data'[k][t] = data[k][t] ]_vars

====
